---- MODULE Spec2Model ----
(***************************************************************************)
(* A model of the XSD atomic datatypes of elementpath (datatypes.py) and   *)
(* of their XPath 2.0 constructors (xpath2_constructors.py):               *)
(* timezone offsets, date/time values, durations, their lexical forms,     *)
(* comparison and arithmetic.  Strings are sequences of one-character      *)
(* strings; a Python datetime is a record of its fields; a timedelta is a  *)
(* normalised record of days, seconds and microseconds.                    *)
(***************************************************************************)
EXTENDS Integers, Sequences, FiniteSets, TLC

VARIABLES
    self,      \* the receiver of the last operation (a value, or None)
    other,     \* the second operand of the last operation (a value, or None)
    text,      \* the string passed to or returned by the last operation
    result,    \* what the last operation returned or raised
    op         \* the name of the last operation ("init" before any)

vars == <<self, other, text, result, op>>

-----------------------------------------------------------------------------
(* Python values shared by all the classes                                 *)

None == <<>>

\* the value of a variable that holds no object
Nothing == [kind |-> "None"]

Some(x) == <<x>>

IsNone(x) == x = <<>>

Get(x) == x[1]

Raise(kind) == [kind |-> "error", error |-> kind]

IsError(r) == r.kind = "error"

\* a Python bool that an operation returns
Bool(v) == [kind |-> "bool", value |-> v]

Min(a, b) == IF a <= b THEN a ELSE b

Abs(n) == IF n < 0 THEN -n ELSE n

RECURSIVE Pow10(_)
Pow10(n) == IF n <= 0 THEN 1 ELSE 10 * Pow10(n - 1)

RECURSIVE SumTo(_, _, _)
\* sum(f[m] for m in range(lo, hi))
SumTo(f, lo, hi) == IF lo >= hi THEN 0 ELSE f[lo] + SumTo(f, lo + 1, hi)

-----------------------------------------------------------------------------
(* Strings                                                                 *)

DigitChars == <<"0", "1", "2", "3", "4", "5", "6", "7", "8", "9">>

IsDigit(c) == \E i \in 1..10 : DigitChars[i] = c

DigitVal(c) == (CHOOSE i \in 1..10 : DigitChars[i] = c) - 1

RECURSIVE NatStr(_)
\* str(n) for n >= 0
NatStr(n) == IF n < 10 THEN <<DigitChars[n + 1]>>
             ELSE NatStr(n \div 10) \o <<DigitChars[(n % 10) + 1]>>

RECURSIVE Zeros(_)
Zeros(n) == IF n <= 0 THEN <<>> ELSE <<"0">> \o Zeros(n - 1)

\* '{:0w}'.format(n): sign-aware zero padding to a minimum width w
ZFill(n, w) ==
    IF n < 0 THEN <<"-">> \o Zeros(w - 1 - Len(NatStr(-n))) \o NatStr(-n)
    ELSE Zeros(w - Len(NatStr(n))) \o NatStr(n)

\* str(n) for any integer
IntStr(n) == IF n < 0 THEN <<"-">> \o NatStr(-n) ELSE NatStr(n)

RECURSIVE DigitsVal(_)
\* the value of a non-empty string of digits
DigitsVal(s) == IF Len(s) = 0 THEN 0
                ELSE 10 * DigitsVal(SubSeq(s, 1, Len(s) - 1)) + DigitVal(s[Len(s)])

RECURSIVE RStrip(_, _)
\* s.rstrip(c)
RStrip(s, c) == IF Len(s) > 0 /\ s[Len(s)] = c THEN RStrip(SubSeq(s, 1, Len(s) - 1), c)
                ELSE s

RECURSIVE LStrip(_, _)
\* s.lstrip(c)
LStrip(s, c) == IF Len(s) > 0 /\ s[1] = c THEN LStrip(SubSeq(s, 2, Len(s)), c)
                ELSE s

\* s.strip(): the only whitespace of the modelled texts is the space
Strip(s) == LStrip(RStrip(s, " "), " ")

StartsWith(s, c) == Len(s) > 0 /\ s[1] = c

Tail_(s, n) == SubSeq(s, n + 1, Len(s))

RECURSIVE Split(_, _)
\* s.split(c): the list of the pieces between the occurrences of c
Split(s, c) ==
    IF \A i \in 1..Len(s) : s[i] # c THEN <<s>>
    ELSE LET k == CHOOSE i \in 1..Len(s) : s[i] = c /\ \A j \in 1..(i - 1) : s[j] # c
         IN  <<SubSeq(s, 1, k - 1)>> \o Split(SubSeq(s, k + 1, Len(s)), c)

\* the digits of an int() literal once its single underscores are dropped, or
\* None when the text is not of the form digit (_? digit)*
IntBody(s) ==
    LET ok == /\ Len(s) > 0
              /\ \A i \in 1..Len(s) : IsDigit(s[i]) \/ s[i] = "_"
              /\ s[1] # "_" /\ s[Len(s)] # "_"
              /\ \A i \in 1..(Len(s) - 1) : ~(s[i] = "_" /\ s[i + 1] = "_")
    IN  IF ok THEN Some(SelectSeq(s, IsDigit)) ELSE None

\* int(s): surrounding blanks, an optional sign, digits; None for ValueError
PyInt(s) ==
    LET t    == Strip(s)
        neg  == StartsWith(t, "-")
        body == IF StartsWith(t, "-") \/ StartsWith(t, "+") THEN Tail_(t, 1) ELSE t
        d    == IntBody(body)
    IN  IF IsNone(d) THEN None
        ELSE Some(IF neg THEN -DigitsVal(Get(d)) ELSE DigitsVal(Get(d)))

-----------------------------------------------------------------------------
(* class Timezone                                                          *)

\* Timezone._maxoffset, in seconds (hours=14)
MaxOffsetHours == 14

_maxoffset == MaxOffsetHours * 3600

_minoffset == -_maxoffset

\* a Timezone.__init__ that stores any offset: the variant without the range check
Timezone_unchecked(offset) == [kind |-> "Timezone", offset |-> offset]

\* Timezone.__init__(offset), the offset a timedelta of whole seconds
Timezone(offset) ==
    IF offset < _minoffset \/ offset > _maxoffset THEN Raise("ValueError")
    ELSE [kind |-> "Timezone", offset |-> offset]

\* Timezone.fromstring(text)
Timezone_fromstring(s) ==
    LET t     == Strip(s)
        parts == Split(t, ":")
        h     == PyInt(parts[1])
        m     == PyInt(parts[2])
        made  == IF StartsWith(parts[1], "-")
                 THEN Timezone(Get(h) * 3600 - Get(m) * 60)
                 ELSE Timezone(Get(h) * 3600 + Get(m) * 60)
        \* the except ValueError clause
        handler == IF t = <<"Z">> THEN Timezone(0) ELSE Raise("ValueError")
    IN  IF Len(parts) # 2 THEN handler
        ELSE IF IsNone(h) \/ IsNone(m) THEN handler
        ELSE IF IsError(made) THEN handler
        ELSE made

\* Timezone.tzname(None): "Z", or sign, hours and minutes of the offset
Timezone_tzname(tz) ==
    LET o == Abs(tz.offset)
    IN  IF tz.offset = 0 THEN <<"Z">>
        ELSE <<(IF tz.offset < 0 THEN "-" ELSE "+")>>
             \o ZFill(o \div 3600, 2) \o <<":">> \o ZFill((o \div 60) % 60, 2)

-----------------------------------------------------------------------------
(* Date/Time helpers                                                       *)

MONTH_DAYS == <<31, 28, 31, 30, 31, 30, 31, 31, 30, 31, 30, 31>>

MONTH_DAYS_LEAP == <<31, 29, 31, 30, 31, 30, 31, 31, 30, 31, 30, 31>>

\* calendar.isleap(year)
isleap(year) == year % 4 = 0 /\ (year % 100 # 0 \/ year % 400 = 0)

\* calendar.leapdays(y1, y2): the leap years in range(y1, y2)
leapdays(y1, y2) ==
    LET a == y1 - 1
        b == y2 - 1
    IN  ((b \div 4) - (a \div 4)) - ((b \div 100) - (a \div 100))
        + ((b \div 400) - (a \div 400))

adjust_day(year, month, day) ==
    IF month \in {1, 3, 5, 7, 8, 10, 12} THEN day
    ELSE IF month \in {4, 6, 9, 11} THEN Min(day, 30)
    ELSE IF isleap(year) THEN Min(day, 29) ELSE Min(day, 28)

\* days_from_common_era with the leap day of every fourth year, the rule of
\* the centuries left out
days_from_common_era_julian(year) ==
    IF year > 0
    THEN year * 365 + (year \div 4)
    ELSE IF year >= -1 THEN year * 366
    ELSE LET y == -year - 1
         IN  -(366 + y * 365 + (y \div 4))

days_from_common_era(year) ==
    IF year > 0
    THEN year * 365 + (year \div 4) - (year \div 100) + (year \div 400)
    ELSE IF year >= -1 THEN year * 366
    ELSE LET y == -year - 1
         IN  -(366 + y * 365 + (y \div 4) - (y \div 100) + (y \div 400))

DAYS_IN_4Y == days_from_common_era(4)

DAYS_IN_100Y == days_from_common_era(100)

DAYS_IN_400Y == days_from_common_era(400)

\* months2days counting the leap days of the years from year to target_year
\* whatever the month it starts from
months2days_from_january(year, month, months_delta) ==
    LET total_months == month - 1 + months_delta
        target_year  == year + (total_months \div 12)
        target_month == (total_months % 12) + 1
        y_days == 365 * (target_year - year) + leapdays(year, target_year)
        months_days == IF isleap(target_year) THEN MONTH_DAYS_LEAP ELSE MONTH_DAYS
    IN  IF months_delta = 0 THEN 0
        ELSE IF target_month >= month
        THEN y_days + SumTo(months_days, month, target_month)
        ELSE y_days - SumTo(months_days, target_month, month)

months2days(year, month, months_delta) ==
    LET total_months == month - 1 + months_delta
        target_year  == year + (total_months \div 12)
        target_month == (total_months % 12) + 1
        y_days == IF month <= 2
                  THEN 365 * (target_year - year) + leapdays(year, target_year)
                  ELSE 365 * (target_year - year) + leapdays(year + 1, target_year + 1)
        months_days == IF isleap(target_year) THEN MONTH_DAYS_LEAP ELSE MONTH_DAYS
    IN  IF months_delta = 0 THEN 0
        ELSE IF target_month >= month
        THEN y_days + SumTo(months_days, month, target_month)
        ELSE y_days - SumTo(months_days, target_month, month)

-----------------------------------------------------------------------------
(* datetime.timedelta and datetime.datetime of the standard library        *)

\* timedelta(days, seconds, microseconds), normalised as Python does:
\* 0 <= seconds < 86400 and 0 <= microseconds < 1000000
timedelta(days, seconds, microseconds) ==
    LET s1 == seconds + (microseconds \div 1000000)
    IN  [days         |-> days + (s1 \div 86400),
         seconds      |-> s1 % 86400,
         microseconds |-> microseconds % 1000000]

td_add(a, b) ==
    timedelta(a.days + b.days, a.seconds + b.seconds, a.microseconds + b.microseconds)

td_neg(a) == timedelta(-a.days, -a.seconds, -a.microseconds)

td_sub(a, b) == td_add(a, td_neg(b))

td_lt(a, b) ==
    \/ a.days < b.days
    \/ a.days = b.days /\ a.seconds < b.seconds
    \/ a.days = b.days /\ a.seconds = b.seconds /\ a.microseconds < b.microseconds

td_zero == timedelta(0, 0, 0)

\* bool(td)
td_bool(a) == a # td_zero

MINYEAR == 1

MAXYEAR == 9999

days_in_month(year, month) ==
    IF isleap(year) THEN MONTH_DAYS_LEAP[month] ELSE MONTH_DAYS[month]

days_before_year(year) ==
    LET y == year - 1
    IN  y * 365 + (y \div 4) - (y \div 100) + (y \div 400)

days_before_month(year, month) ==
    SumTo(IF isleap(year) THEN MONTH_DAYS_LEAP ELSE MONTH_DAYS, 1, month)

\* date.toordinal(): 0001-01-01 is day 1
ymd2ord(year, month, day) == days_before_year(year) + days_before_month(year, month) + day

_MAXORDINAL == ymd2ord(MAXYEAR, 12, 31)

\* date.fromordinal(n), for 1 <= n <= _MAXORDINAL
ord2ymd(n) ==
    LET guess == (((n - 1) * 400) \div DAYS_IN_400Y) + 1
        year  == CHOOSE y \in (guess - 1)..(guess + 1) :
                     days_before_year(y) < n /\ n <= days_before_year(y + 1)
        rest  == n - days_before_year(year)
        month == CHOOSE m \in 1..12 :
                     /\ days_before_month(year, m) < rest
                     /\ rest <= days_before_month(year, m) + days_in_month(year, m)
    IN  [year |-> year, month |-> month, day |-> rest - days_before_month(year, month)]

\* datetime.datetime(year, month, day, hour, minute, second, microsecond, tzinfo);
\* tzinfo is None or Some(a Timezone)
datetime(year, month, day, hour, minute, second, microsecond, tzinfo) ==
    IF /\ MINYEAR <= year /\ year <= MAXYEAR
       /\ 1 <= month /\ month <= 12
       /\ 1 <= day /\ day <= days_in_month(year, month)
       /\ 0 <= hour /\ hour <= 23
       /\ 0 <= minute /\ minute <= 59
       /\ 0 <= second /\ second <= 59
       /\ 0 <= microsecond /\ microsecond <= 999999
    THEN [kind |-> "datetime", year |-> year, month |-> month, day |-> day,
          hour |-> hour, minute |-> minute, second |-> second,
          microsecond |-> microsecond, tzinfo |-> tzinfo]
    ELSE Raise("ValueError")

\* dt.replace(tzinfo=tz)
dt_replace_tzinfo(dt, tz) == [dt EXCEPT !.tzinfo = tz]

\* dt.utcoffset(), in seconds, 0 for a naive datetime
dt_utcoffset(dt) == IF IsNone(dt.tzinfo) THEN 0 ELSE Get(dt.tzinfo).offset

\* the wall-clock time of dt as a timedelta counted from ordinal 0
dt_wall(dt) ==
    timedelta(ymd2ord(dt.year, dt.month, dt.day),
              dt.hour * 3600 + dt.minute * 60 + dt.second, dt.microsecond)

\* datetime + timedelta: OverflowError outside 0001-01-01 .. 9999-12-31
dt_add(dt, td) ==
    LET t   == td_add(dt_wall(dt), td)
        ymd == ord2ymd(t.days)
    IN  IF t.days < 1 \/ t.days > _MAXORDINAL THEN Raise("OverflowError")
        ELSE [kind |-> "datetime", year |-> ymd.year, month |-> ymd.month,
              day |-> ymd.day, hour |-> t.seconds \div 3600,
              minute |-> (t.seconds \div 60) % 60, second |-> t.seconds % 60,
              microsecond |-> t.microseconds, tzinfo |-> dt.tzinfo]

\* dt1 - dt2 for two naive or two aware datetimes: the difference of the instants
dt_sub(dt1, dt2) ==
    td_add(td_sub(dt_wall(dt1), dt_wall(dt2)),
           timedelta(0, dt_utcoffset(dt2) - dt_utcoffset(dt1), 0))

\* one of the two datetimes is naive and the other is aware
dt_mixed(dt1, dt2) == IsNone(dt1.tzinfo) # IsNone(dt2.tzinfo)

\* dt1 == dt2: a naive datetime and an aware one are never equal
dt_eq(dt1, dt2) == ~dt_mixed(dt1, dt2) /\ dt_sub(dt1, dt2) = td_zero

\* dt1 < dt2, ... for two naive or two aware datetimes

dt_lt(dt1, dt2) == td_lt(dt_sub(dt1, dt2), td_zero)

dt_le(dt1, dt2) == dt_lt(dt1, dt2) \/ dt_eq(dt1, dt2)

dt_gt(dt1, dt2) == dt_lt(dt2, dt1)

dt_ge(dt1, dt2) == dt_le(dt2, dt1)

\* operator.lt, le, gt, ge on two datetimes: datetime raises TypeError for a
\* naive datetime against an aware one
dt_order(rel, dt1, dt2) ==
    IF dt_mixed(dt1, dt2) THEN Raise("TypeError")
    ELSE CASE rel = "<"  -> Bool(dt_lt(dt1, dt2))
           [] rel = "<=" -> Bool(dt_le(dt1, dt2))
           [] rel = ">"  -> Bool(dt_gt(dt1, dt2))
           [] rel = ">=" -> Bool(dt_ge(dt1, dt2))

-----------------------------------------------------------------------------
(* class AbstractDateTime and its subclasses                               *)

\* the base classes of each class, as the class statements give them
Bases(cls) ==
    CASE cls = "AbstractDateTime"        -> {}
      [] cls = "OrderedDateTime"         -> {"AbstractDateTime"}
      [] cls = "DateTime10"              -> {"OrderedDateTime"}
      [] cls = "DateTime"                -> {"DateTime10"}
      [] cls = "Date10"                  -> {"OrderedDateTime"}
      [] cls = "Date"                    -> {"Date10"}
      [] cls = "XPathGregorianDay"       -> {"AbstractDateTime"}
      [] cls = "GregorianDay"            -> {"XPathGregorianDay", "OrderedDateTime"}
      [] cls = "XPathGregorianMonth"     -> {"AbstractDateTime"}
      [] cls = "GregorianMonth"          -> {"XPathGregorianMonth", "OrderedDateTime"}
      [] cls = "XPathGregorianMonthDay"  -> {"AbstractDateTime"}
      [] cls = "GregorianMonthDay"       -> {"XPathGregorianMonthDay", "OrderedDateTime"}
      [] cls = "XPathGregorianYear"      -> {"AbstractDateTime"}
      [] cls = "GregorianYear10"         -> {"XPathGregorianYear", "OrderedDateTime"}
      [] cls = "GregorianYear"           -> {"GregorianYear10"}
      [] cls = "XPathGregorianYearMonth" -> {"AbstractDateTime"}
      [] cls = "GregorianYearMonth10"    -> {"XPathGregorianYearMonth", "OrderedDateTime"}
      [] cls = "GregorianYearMonth"      -> {"GregorianYearMonth10"}
      [] cls = "Time"                    -> {"AbstractDateTime"}

RECURSIVE issubclass(_, _)
issubclass(cls, base) == cls = base \/ \E b \in Bases(cls) : issubclass(b, base)

\* isinstance(obj, cls) for an AbstractDateTime object
isinstance(obj, cls) == issubclass(obj.cls, cls)

\* the class attribute version
version(cls) ==
    IF \E c \in {"DateTime", "Date", "GregorianYear", "GregorianYearMonth"} :
           issubclass(cls, c)
    THEN "1.1" ELSE "1.0"

\* the class attribute pattern, as the list of its groups and literals; every
\* pattern ends with the optional tzinfo group
pattern(cls) ==
    IF issubclass(cls, "DateTime10")
    THEN <<"year", "-", "month", "-", "day", "T", "hour", ":", "minute", ":",
           "second", "microsecond">>
    ELSE IF issubclass(cls, "Date10") THEN <<"year", "-", "month", "-", "day">>
    ELSE IF issubclass(cls, "XPathGregorianDay") THEN <<"-", "-", "-", "day">>
    ELSE IF issubclass(cls, "XPathGregorianMonthDay")
    THEN <<"-", "-", "month", "-", "day">>
    ELSE IF issubclass(cls, "XPathGregorianMonth") THEN <<"-", "-", "month">>
    ELSE IF issubclass(cls, "XPathGregorianYearMonth") THEN <<"year", "-", "month">>
    ELSE IF issubclass(cls, "XPathGregorianYear") THEN <<"year">>
    ELSE IF issubclass(cls, "Time")
    THEN <<"hour", ":", "minute", ":", "second", "microsecond">>
    ELSE <<>>

GroupNames == {"year", "month", "day", "hour", "minute", "second", "microsecond"}

\* pattern.groupindex.keys()
groupindex(cls) ==
    ({pattern(cls)[i] : i \in 1..Len(pattern(cls))} \cap GroupNames) \cup {"tzinfo"}

\* AbstractDateTime.__init__ for an instance of cls
AbstractDateTime(cls, year, month, day, hour, minute, second, microsecond, tzinfo) ==
    LET roll   == hour = 24 /\ minute = 0 /\ second = 0
        h      == IF roll THEN 0 ELSE hour
        inside == 1 <= year /\ year <= 9999
        anchor == IF inside THEN year
                  ELSE IF isleap(year + (IF version(cls) # "1.0" THEN 1 ELSE 0))
                  THEN 4 ELSE 6
        dt     == datetime(anchor, month, day, h, minute, second, microsecond, tzinfo)
        moved  == dt_add(dt, timedelta(1, 0, 0))
        obj(d) == [kind |-> "AbstractDateTime", cls |-> cls, _dt |-> d,
                   _year |-> IF inside THEN None ELSE Some(year)]
    IN  IF year = 0 THEN Raise("ValueError")
        ELSE IF IsError(dt) THEN dt
        ELSE IF ~roll THEN obj(dt)
        ELSE IF IsError(moved) THEN moved
        ELSE obj(moved)

\* the keyword arguments a constructor receives, the defaults of
\* AbstractDateTime.__init__ standing for those its signature does not pass
DefaultKwargs ==
    [year |-> 2000, month |-> 1, day |-> 1, hour |-> 0, minute |-> 0, second |-> 0,
     microsecond |-> 0, tzinfo |-> None]

\* cls(**kw): the __init__ of each subclass passes its own fields to
\* AbstractDateTime.__init__; Time.__init__ first turns 24:00:00 into 00:00:00
New(cls, kw) ==
    LET has(k) == k \in groupindex(cls)
        pick(k) == IF has(k) THEN kw[k] ELSE DefaultKwargs[k]
        hour == IF cls = "Time" /\ kw.hour = 24 /\ kw.minute = 0 /\ kw.second = 0
                THEN 0 ELSE pick("hour")
    IN  AbstractDateTime(cls, pick("year"), pick("month"), pick("day"), hour,
                         pick("minute"), pick("second"), pick("microsecond"),
                         kw.tzinfo)

\* the properties year, tzinfo
year_(obj) == IF ~IsNone(obj._year) THEN Get(obj._year) ELSE obj._dt.year

tzinfo_(obj) == obj._dt.tzinfo

\* the tzinfo setter
set_tzinfo(obj, tz) == [obj EXCEPT !._dt = dt_replace_tzinfo(obj._dt, tz)]

\* iso_year without the shift of version 1.1: the year -1 always reads "-0001"
iso_year_unshifted(obj) ==
    IF -9999 <= year_(obj) /\ year_(obj) < 0 THEN ZFill(year_(obj), 5)
    ELSE IF 0 <= year_(obj) /\ year_(obj) <= 9999 THEN ZFill(year_(obj), 4)
    ELSE IntStr(year_(obj))

\* the property iso_year
iso_year(obj) ==
    LET year == year_(obj)
        v    == version(obj.cls)
    IN  IF -9999 <= year /\ year < -1
        THEN ZFill(IF v = "1.0" THEN year ELSE year + 1, 5)
        ELSE IF year = -1
        THEN (IF v = "1.0" THEN <<"-", "0", "0", "0", "1">> ELSE <<"0", "0", "0", "0">>)
        ELSE IF 0 <= year /\ year <= 9999 THEN ZFill(year, 4)
        ELSE IntStr(year)

\* str(self.tzinfo or '')
tz_str(obj) == IF IsNone(tzinfo_(obj)) THEN <<>> ELSE Timezone_tzname(Get(tzinfo_(obj)))

\* '{:06}'.format(self.microsecond).rstrip('0')
fraction_str(obj) == RStrip(ZFill(obj._dt.microsecond, 6), "0")

hms_str(obj) ==
    ZFill(obj._dt.hour, 2) \o <<":">> \o ZFill(obj._dt.minute, 2) \o <<":">>
    \o ZFill(obj._dt.second, 2)

\* DateTime10.__str__
DateTime10_str(obj) ==
    LET head == iso_year(obj) \o <<"-">> \o ZFill(obj._dt.month, 2) \o <<"-">>
                \o ZFill(obj._dt.day, 2) \o <<"T">> \o hms_str(obj)
    IN  IF obj._dt.microsecond # 0
        THEN RStrip(head \o <<".">> \o fraction_str(obj) \o tz_str(obj), "0")
        ELSE head \o tz_str(obj)

\* Time.__str__
Time_str(obj) ==
    IF obj._dt.microsecond # 0
    THEN hms_str(obj) \o <<".">> \o fraction_str(obj) \o tz_str(obj)
    ELSE hms_str(obj) \o tz_str(obj)

\* Date10.__str__
Date10_str(obj) ==
    iso_year(obj) \o <<"-">> \o ZFill(obj._dt.month, 2) \o <<"-">>
    \o ZFill(obj._dt.day, 2) \o tz_str(obj)

\* the __str__ of the Gregorian classes
Gregorian_str(obj) ==
    IF isinstance(obj, "XPathGregorianDay")
    THEN <<"-", "-", "-">> \o ZFill(obj._dt.day, 2) \o tz_str(obj)
    ELSE IF isinstance(obj, "XPathGregorianMonth")
    THEN <<"-", "-">> \o ZFill(obj._dt.month, 2) \o tz_str(obj)
    ELSE IF isinstance(obj, "XPathGregorianMonthDay")
    THEN <<"-", "-">> \o ZFill(obj._dt.month, 2) \o <<"-">> \o ZFill(obj._dt.day, 2)
         \o tz_str(obj)
    ELSE IF isinstance(obj, "XPathGregorianYear")
    THEN iso_year(obj) \o tz_str(obj)
    ELSE iso_year(obj) \o <<"-">> \o ZFill(obj._dt.month, 2) \o tz_str(obj)

\* str(obj)
str(obj) ==
    IF isinstance(obj, "DateTime10") THEN DateTime10_str(obj)
    ELSE IF isinstance(obj, "Date10") THEN Date10_str(obj)
    ELSE IF isinstance(obj, "Time") THEN Time_str(obj)
    ELSE Gregorian_str(obj)

\* the length of the longest prefix of s made of digits
RECURSIVE DigitRun(_)
DigitRun(s) == IF Len(s) > 0 /\ IsDigit(s[1]) THEN 1 + DigitRun(Tail(s)) ELSE 0

\* the tzinfo group: Z|[+-](?:(?:0[0-9]|1[0-3]):[0-5][0-9]|14:00)
MatchesTzGroup(s) ==
    \/ s = <<"Z">>
    \/ /\ Len(s) = 6
       /\ s[1] \in {"+", "-"}
       /\ \/ /\ s[2] = "0" /\ IsDigit(s[3])
             /\ s[4] = ":" /\ s[5] \in {"0", "1", "2", "3", "4", "5"} /\ IsDigit(s[6])
          \/ /\ s[2] = "1" /\ s[3] \in {"0", "1", "2", "3"}
             /\ s[4] = ":" /\ s[5] \in {"0", "1", "2", "3", "4", "5"} /\ IsDigit(s[6])
          \/ SubSeq(s, 2, 6) = <<"1", "4", ":", "0", "0">>

\* pattern.match(s).groupdict() without its None entries, as a function from
\* group names to the captured texts; None when the pattern does not match
RECURSIVE MatchGroups(_, _, _)
MatchGroups(toks, s, groups) ==
    IF toks = <<>>
    THEN IF s = <<>> THEN Some(groups)
         ELSE IF MatchesTzGroup(s) THEN Some(groups @@ ("tzinfo" :> s))
         ELSE None
    ELSE LET t == Head(toks)
         IN  IF t = "year"
             THEN LET neg == IF StartsWith(s, "-") THEN 1 ELSE 0
                      n   == DigitRun(Tail_(s, neg))
                  IN  IF n < 4 THEN None
                      ELSE MatchGroups(Tail(toks), Tail_(s, neg + n),
                                       groups @@ ("year" :> SubSeq(s, 1, neg + n)))
             ELSE IF t = "microsecond"
             THEN LET n == IF StartsWith(s, ".") THEN DigitRun(Tail(s)) ELSE 0
                  IN  IF n = 0 THEN MatchGroups(Tail(toks), s, groups)
                      ELSE MatchGroups(Tail(toks), Tail_(s, n + 1),
                                       groups @@ ("microsecond" :> SubSeq(s, 2, n + 1)))
             ELSE IF t \in GroupNames
             THEN IF Len(s) >= 2 /\ IsDigit(s[1]) /\ IsDigit(s[2])
                  THEN MatchGroups(Tail(toks), Tail_(s, 2),
                                   groups @@ (t :> SubSeq(s, 1, 2)))
                  ELSE None
             ELSE IF StartsWith(s, t) THEN MatchGroups(Tail(toks), Tail(s), groups)
             ELSE None

NoGroups == [k \in {} |-> <<>>]

\* AbstractDateTime.fromstring(datetime_string, tzinfo) called on class cls
fromstring(cls, datetime_string, tzinfo) ==
    LET match == MatchGroups(pattern(cls), Strip(datetime_string), NoGroups)
        g     == Get(match)
        has(k) == k \in DOMAIN g
        int(k) == Get(PyInt(g[k]))
        tz    == IF has("tzinfo") THEN Some(Timezone_fromstring(g["tzinfo"]))
                 ELSE tzinfo
        pow10 == 6 - Len(g["microsecond"])
        microsecond == IF ~has("microsecond") THEN 0
                       ELSE IF pow10 < 0 THEN 0
                       ELSE int("microsecond") * Pow10(pow10)
        year_digits == LStrip(g["year"], "-")
        year  == IF int("year") <= 0 /\ version(cls) # "1.0"
                 THEN int("year") - 1 ELSE int("year")
        field(k) == IF has(k) THEN int(k) ELSE DefaultKwargs[k]
    IN  IF IsNone(match) THEN Raise("ValueError")
        ELSE IF has("year") /\ StartsWith(year_digits, "0") /\ Len(year_digits) > 4
        THEN Raise("ValueError")
        ELSE New(cls, [year |-> IF has("year") THEN year ELSE DefaultKwargs.year,
                       month |-> field("month"), day |-> field("day"),
                       hour |-> field("hour"), minute |-> field("minute"),
                       second |-> field("second"), microsecond |-> microsecond,
                       tzinfo |-> tz])

-----------------------------------------------------------------------------
(* decimal.Decimal: the value s + f / DecUnit with 0 <= f < DecUnit, so     *)
(* that equal numbers are equal records                                     *)

\* the fractional digits of seconds the model keeps (one more than a
\* timedelta's microseconds)
FracDigits == 7

DecUnit == Pow10(FracDigits)

Decimal(s, f) == [s |-> s + (f \div DecUnit), f |-> f % DecUnit]

dec_zero == Decimal(0, 0)

dec_neg(d) == Decimal(-d.s, -d.f)

dec_add(a, b) == Decimal(a.s + b.s, a.f + b.f)

dec_sub(a, b) == dec_add(a, dec_neg(b))

dec_lt(a, b) == a.s < b.s \/ (a.s = b.s /\ a.f < b.f)

\* d.copy_abs()
dec_abs(d) == IF dec_lt(d, dec_zero) THEN dec_neg(d) ELSE d

\* int(d): truncation towards zero
dec_int(d) == IF d.s < 0 /\ d.f > 0 THEN d.s + 1 ELSE d.s

\* int((d - int(d)) * 1000000) and int(d % 1 * 1000000): the microseconds of
\* the fraction, with the sign of d, truncated towards zero
dec_micro(d) ==
    LET per == Pow10(FracDigits - 6)
    IN  IF d.s < 0 /\ d.f > 0 THEN -((DecUnit - d.f) \div per) ELSE d.f \div per

-----------------------------------------------------------------------------
(* class Duration and its subclasses                                       *)

DurationBases(cls) ==
    CASE cls = "Duration"          -> {}
      [] cls = "YearMonthDuration" -> {"Duration"}
      [] cls = "DayTimeDuration"   -> {"Duration"}

\* isinstance(d, cls) for a duration d
isduration(d, cls) == d.cls = cls \/ cls \in DurationBases(d.cls)

\* Duration.__init__ without the check of the signs
Duration_unchecked(cls, months, seconds) ==
    [kind |-> "Duration", cls |-> cls, months |-> months, seconds |-> seconds]

\* Duration.__init__ for an instance of cls
Duration(cls, months, seconds) ==
    IF \/ dec_lt(seconds, dec_zero) /\ 0 < months
       \/ months < 0 /\ dec_lt(dec_zero, seconds)
    THEN Raise("ValueError")
    ELSE [kind |-> "Duration", cls |-> cls, months |-> months, seconds |-> seconds]

\* YearMonthDuration.__init__
YearMonthDuration(months) == Duration("YearMonthDuration", months, dec_zero)

\* DayTimeDuration.__init__
DayTimeDuration(seconds) == Duration("DayTimeDuration", 0, seconds)

\* DayTimeDuration.fromtimedelta: Decimal('{}.{:06}'.format(whole, micro))
fromtimedelta(td) ==
    LET whole == td.days * 86400 + td.seconds
        frac  == td.microseconds * Pow10(FracDigits - 6)
    IN  DayTimeDuration(IF whole >= 0 THEN Decimal(whole, frac)
                        ELSE dec_neg(Decimal(-whole, frac)))

\* DayTimeDuration.get_timedelta
get_timedelta(d) == timedelta(0, dec_int(d.seconds), dec_micro(d.seconds))

\* Timezone.fromduration(duration)
Timezone_fromduration(duration) == Timezone(dec_int(duration.seconds))

\* Duration.sign
Duration_sign(d) == IF d.months < 0 \/ dec_lt(d.seconds, dec_zero) THEN <<"-">> ELSE <<>>

RECURSIVE TrailingZeros(_)
\* the number of zeros that end the decimal digits of n > 0
TrailingZeros(n) == IF n % 10 = 0 THEN 1 + TrailingZeros(n \div 10) ELSE 0

\* str(d.normalize()) for a Decimal 0 < d: the trailing zeros of the
\* coefficient move into the exponent, and str() writes an exponent when it is
\* positive or when the adjusted exponent is below -6
dec_normalize_str(d) ==
    IF d.f = 0
    THEN LET k    == TrailingZeros(d.s)
             coef == NatStr(d.s \div Pow10(k))
         IN  IF k = 0 THEN coef
             ELSE <<coef[1]>>
                  \o (IF Len(coef) > 1 THEN <<".">> \o Tail(coef) ELSE <<>>)
                  \o <<"E", "+">> \o NatStr(k + Len(coef) - 1)
    ELSE LET k    == TrailingZeros(d.f)
             coef == NatStr(d.f \div Pow10(k))
             exp  == k - FracDigits
             adj  == exp + Len(coef) - 1
         IN  IF d.s = 0 /\ adj < -6
             THEN <<coef[1]>>
                  \o (IF Len(coef) > 1 THEN <<".">> \o Tail(coef) ELSE <<>>)
                  \o <<"E", "-">> \o NatStr(-adj)
             ELSE NatStr(d.s) \o <<".">> \o RStrip(ZFill(d.f, FracDigits), "0")

\* Duration.__str__
Duration_str(d) ==
    LET m       == Abs(d.months)
        years   == m \div 12
        months  == m % 12
        s       == dec_abs(d.seconds)
        days    == s.s \div 86400
        hours   == (s.s \div 3600) % 24
        minutes == (s.s \div 60) % 60
        seconds == Decimal(s.s % 60, s.f)
        head    == (IF Duration_sign(d) # <<>> THEN <<"-", "P">> ELSE <<"P">>)
                   \o (IF years # 0 THEN NatStr(years) \o <<"Y">> ELSE <<>>)
                   \o (IF months # 0 THEN NatStr(months) \o <<"M">> ELSE <<>>)
                   \o (IF days # 0 THEN NatStr(days) \o <<"D">> ELSE <<>>)
    IN  IF hours # 0 \/ minutes # 0 \/ seconds # dec_zero
        THEN head \o <<"T">>
             \o (IF hours # 0 THEN NatStr(hours) \o <<"H">> ELSE <<>>)
             \o (IF minutes # 0 THEN NatStr(minutes) \o <<"M">> ELSE <<>>)
             \o (IF seconds # dec_zero THEN dec_normalize_str(seconds) \o <<"S">>
                 ELSE <<>>)
        ELSE IF head[Len(head)] = "P" THEN head \o <<"T", "0", "S">>
        ELSE head

\* str(d) of a YearMonthDuration without the method of the subclass: the
\* __str__ inherited from Duration
YearMonthDuration_str_inherited(d) == Duration_str(d)

\* YearMonthDuration.__str__
YearMonthDuration_str(d) ==
    LET m      == Abs(d.months)
        years  == m \div 12
        months == m % 12
        p      == IF d.months < 0 THEN <<"-", "P">> ELSE <<"P">>
    IN  IF years = 0 THEN p \o NatStr(months) \o <<"M">>
        ELSE IF months = 0 THEN p \o NatStr(years) \o <<"Y">>
        ELSE p \o NatStr(years) \o <<"Y">> \o NatStr(months) \o <<"M">>

\* str(d) for a duration d
duration_str(d) ==
    IF d.cls = "YearMonthDuration" THEN YearMonthDuration_str(d) ELSE Duration_str(d)

RECURSIVE ScanFields(_, _, _)
\* the run of optional groups (?:([0-9]+)X)? for the designators X of letters,
\* in their order: the digits captured for each, and the text left over
ScanFields(s, letters, got) ==
    LET n == DigitRun(s)
        k == CHOOSE i \in 1..Len(letters) : letters[i] = s[n + 1]
    IN  IF /\ n > 0
           /\ Len(s) > n
           /\ \E i \in 1..Len(letters) : letters[i] = s[n + 1]
        THEN ScanFields(Tail_(s, n + 1), Tail_(letters, k),
                        got @@ (letters[k] :> SubSeq(s, 1, n)))
        ELSE [got |-> got, rest |-> s]

\* the group ([0-9]+(?:\.[0-9]+)?)S that ends the text: whole and fraction digits
SecondsGroup(s) ==
    LET n == DigitRun(s)
        k == DigitRun(Tail_(s, n + 1))
    IN  IF n > 0 /\ Len(s) = n + 1 /\ s[n + 1] = "S"
        THEN Some([whole |-> SubSeq(s, 1, n), frac |-> <<>>])
        ELSE IF /\ n > 0 /\ Len(s) > n + 1 /\ s[n + 1] = "." /\ k > 0
                /\ Len(s) = n + k + 2 /\ s[n + k + 2] = "S"
        THEN Some([whole |-> SubSeq(s, 1, n), frac |-> SubSeq(s, n + 2, n + k + 1)])
        ELSE None

\* the groups of a match of Duration._pattern
PatternGroups(neg, date, time, seconds) ==
    Some([sign |-> neg, date |-> date, time |-> time, seconds |-> seconds])

\* the end of Duration._pattern, after the hour and minute groups
Duration_pattern_seconds(neg, date, time) ==
    IF time.rest = <<>> THEN PatternGroups(neg, date, time.got, None)
    ELSE IF IsNone(SecondsGroup(time.rest)) THEN None
    ELSE PatternGroups(neg, date, time.got, SecondsGroup(time.rest))

\* the part (?:T(?=[0-9])...)? of Duration._pattern, after the date groups
Duration_pattern_time(neg, date) ==
    IF date.rest = <<>> THEN PatternGroups(neg, date.got, NoGroups, None)
    ELSE IF ~(date.rest[1] = "T" /\ Len(date.rest) > 1 /\ IsDigit(date.rest[2]))
    THEN None
    ELSE Duration_pattern_seconds(neg, date.got,
                                  ScanFields(Tail_(date.rest, 1), <<"H", "M">>, NoGroups))

\* the part P(?=(?:[0-9]|T))... of Duration._pattern, after the sign
Duration_pattern_P(neg, u) ==
    IF ~StartsWith(u, "P") THEN None
    ELSE IF ~(Len(u) > 1 /\ (IsDigit(u[2]) \/ u[2] = "T")) THEN None
    ELSE Duration_pattern_time(neg, ScanFields(Tail_(u, 1), <<"Y", "M", "D">>, NoGroups))

\* Duration._pattern.match(s): the groups of the match, or None
Duration_pattern(s) ==
    Duration_pattern_P(StartsWith(s, "-"), IF StartsWith(s, "-") THEN Tail_(s, 1) ELSE s)

\* Decimal(text) for the digits of a whole part and of a fraction of at most
\* FracDigits digits
dec_fromdigits(whole, frac) ==
    Decimal(DigitsVal(whole), DigitsVal(frac \o Zeros(FracDigits - Len(frac))))

\* int(v) for the group k of the groups f, 0 for a group that did not take part
DurationField(f, k) == IF k \in DOMAIN f THEN DigitsVal(f[k]) ELSE 0

\* the end of Duration.fromstring: the class check and the return statement
Duration_fromvalues(cls, months, seconds) ==
    IF cls = "DayTimeDuration"
    THEN (IF months # 0 THEN Raise("ValueError") ELSE DayTimeDuration(seconds))
    ELSE IF cls = "YearMonthDuration"
    THEN (IF seconds # dec_zero THEN Raise("ValueError")
          ELSE YearMonthDuration(months))
    ELSE Duration(cls, months, seconds)

\* Duration.fromstring with each field cut at its carry limit and the carries
\* dropped: 90 seconds count as 30 seconds
Duration_fromfields_cut(cls, sign, years, months_, days_, hours_, minutes_, sec0) ==
    Duration_fromvalues(cls,
        IF sign THEN -((months_ % 12) + 12 * years) ELSE (months_ % 12) + 12 * years,
        IF sign
        THEN dec_neg(Decimal((days_ * 24 + (hours_ % 24)) * 3600 + (minutes_ % 60) * 60
                             + (sec0.s % 60), sec0.f))
        ELSE Decimal((days_ * 24 + (hours_ % 24)) * 3600 + (minutes_ % 60) * 60
                     + (sec0.s % 60), sec0.f))

\* the arithmetic of Duration.fromstring on the fields of the text
Duration_fromfields(cls, sign, years, months_, days_, hours_, minutes_, sec0) ==
    LET minutes0 == minutes_ + (sec0.s \div 60)
        hours0   == hours_ + ((minutes_ + (sec0.s \div 60)) \div 60)
        days     == days_ + (hours0 \div 24)
        whole    == (days * 24 + (hours0 % 24)) * 3600 + (minutes0 % 60) * 60
        months0  == months_ + 12 * years
    IN  Duration_fromvalues(cls, IF sign THEN -months0 ELSE months0,
            IF sign THEN dec_sub(dec_neg(Decimal(sec0.s % 60, sec0.f)), Decimal(whole, 0))
            ELSE dec_add(Decimal(sec0.s % 60, sec0.f), Decimal(whole, 0)))

\* Duration.fromstring after the match: the fields of the groups g
Duration_fromgroups(cls, g) ==
    Duration_fromfields(cls, g.sign, DurationField(g.date, "Y"), DurationField(g.date, "M"),
        DurationField(g.date, "D"), DurationField(g.time, "H"), DurationField(g.time, "M"),
        IF IsNone(g.seconds) THEN dec_zero
        ELSE dec_fromdigits(Get(g.seconds).whole, Get(g.seconds).frac))

\* Duration.fromstring with the match of the pattern
Duration_frommatch(cls, match) ==
    IF IsNone(match) THEN Raise("ValueError") ELSE Duration_fromgroups(cls, Get(match))

\* Duration.fromstring(text) called on class cls
Duration_fromstring(cls, text_) == Duration_frommatch(cls, Duration_pattern(Strip(text_)))

\* op(a, b) for two timedeltas and op one of operator.lt, le, gt, ge
td_compare(rel, a, b) ==
    CASE rel = "<"  -> td_lt(a, b)
      [] rel = "<=" -> ~td_lt(b, a)
      [] rel = ">"  -> td_lt(b, a)
      [] rel = ">=" -> ~td_lt(a, b)

\* the four (year, month) anchors of Duration._compare_durations
DurationAnchors == {<<1696, 9>>, <<1697, 2>>, <<1903, 3>>, <<1903, 7>>}

\* _compare_durations without its check of the class of other
_compare_durations_anyclass(a, b, rel) ==
    Bool(\A ym \in DurationAnchors :
            td_compare(rel,
                       timedelta(months2days(ym[1], ym[2], a.months),
                                 dec_int(a.seconds), dec_micro(a.seconds)),
                       timedelta(months2days(ym[1], ym[2], b.months),
                                 dec_int(b.seconds), dec_micro(b.seconds))))

\* Duration._compare_durations(self, other, op)
_compare_durations(a, b, rel) ==
    LET s1  == dec_int(a.seconds)
        s2  == dec_int(b.seconds)
        ms1 == dec_micro(a.seconds)
        ms2 == dec_micro(b.seconds)
    IN  IF ~isduration(b, a.cls) THEN Raise("TypeError")
        ELSE Bool(\A ym \in DurationAnchors :
                      td_compare(rel,
                                 timedelta(months2days(ym[1], ym[2], a.months), s1, ms1),
                                 timedelta(months2days(ym[1], ym[2], b.months), s2, ms2)))

\* Duration.__eq__ for a duration other: when other is not an instance of the
\* class of self, other == (self.months, self.seconds) is answered by the
\* __eq__ of other, which compares the tuple with (other.months, other.seconds)
Duration_eq(a, b) ==
    IF isduration(b, a.cls) THEN Bool(a.months = b.months /\ a.seconds = b.seconds)
    ELSE Bool(<<a.months, a.seconds>> = <<b.months, b.seconds>>)

\* Duration.__ne__
Duration_ne(a, b) ==
    IF isduration(b, a.cls) THEN Bool(a.months # b.months \/ a.seconds # b.seconds)
    ELSE Bool(<<a.months, a.seconds>> # <<b.months, b.seconds>>)

\* the method a of class Duration runs for rel: __eq__, __ne__, __lt__, __le__,
\* __gt__, __ge__
Duration_method(rel, a, b) ==
    CASE rel = "==" -> Duration_eq(a, b)
      [] rel = "!=" -> Duration_ne(a, b)
      [] rel \in {"<", ">"} -> _compare_durations(a, b, rel)
      [] rel \in {"<=", ">="} ->
            IF Duration_eq(a, b).value THEN Bool(TRUE)
            ELSE _compare_durations(a, b, rel)

\* the operator Python tries on the right operand for a rel b
Reflected(rel) ==
    CASE rel = "<"  -> ">"
      [] rel = "<=" -> ">="
      [] rel = ">"  -> "<"
      [] rel = ">=" -> "<="
      [] OTHER      -> rel

\* a rel b for two durations: when the class of b is a proper subclass of the
\* class of a, Python runs the reflected method of b first
Duration_compare(rel, a, b) ==
    IF a.cls \in DurationBases(b.cls) THEN Duration_method(Reflected(rel), b, a)
    ELSE Duration_method(rel, a, b)

-----------------------------------------------------------------------------
(* comparison and arithmetic of AbstractDateTime, OrderedDateTime and Time *)

_utc_timezone == Timezone(0)

\* datetime.datetime(1, 1, 1)
Epoch == datetime(1, 1, 1, 0, 0, 0, 0, None)

\* the two datetimes as they are, a naive one staying naive
operands_asis(sdt, dt) == <<sdt, dt>>

\* the two datetimes _get_operands returns for the datetime dt of the peer:
\* a naive one of the two is given the UTC timezone in a copy
operands(sdt, dt) ==
    IF IsNone(sdt.tzinfo) = IsNone(dt.tzinfo) THEN <<sdt, dt>>
    ELSE IF IsNone(sdt.tzinfo) THEN <<dt_replace_tzinfo(sdt, Some(_utc_timezone)), dt>>
    ELSE <<sdt, dt_replace_tzinfo(dt, Some(_utc_timezone))>>

\* _get_operands without its check of the class of other
_get_operands_anyclass(a, b) ==
    [kind |-> "operands", dt1 |-> operands(a._dt, b._dt)[1],
     dt2 |-> operands(a._dt, b._dt)[2], self |-> a, other |-> b]

\* AbstractDateTime._get_operands(self, other) for an AbstractDateTime other:
\* the two datetimes to compare, and the two objects as the call leaves them
_get_operands(a, b) ==
    IF isinstance(b, a.cls) \/ isinstance(a, b.cls)
    THEN [kind |-> "operands", dt1 |-> operands(a._dt, b._dt)[1],
          dt2 |-> operands(a._dt, b._dt)[2], self |-> a, other |-> b]
    ELSE Raise("TypeError")

\* AbstractDateTime.__eq__
__eq__(a, b) ==
    LET o == _get_operands(a, b)
    IN  IF IsError(o) THEN Bool(FALSE)
        ELSE Bool(dt_eq(o.dt1, o.dt2) /\ year_(a) = year_(b))

\* AbstractDateTime.__ne__
__ne__(a, b) ==
    LET o == _get_operands(a, b)
    IN  IF IsError(o) THEN Bool(TRUE)
        ELSE Bool(~dt_eq(o.dt1, o.dt2) \/ year_(a) # year_(b))

\* dt1 < dt2 and the like for <=, >, >=, the years left out
YearThenDatetime_datetime(rel, y1, y2, dt1, dt2) == dt_order(rel, dt1, dt2)

\* y1 < y2 or y1 == y2 and dt1 < dt2, and the like for <=, >, >=
YearThenDatetime(rel, y1, y2, dt1, dt2) ==
    IF y1 = y2 THEN dt_order(rel, dt1, dt2)
    ELSE IF rel \in {"<", "<="} THEN Bool(y1 < y2)
    ELSE Bool(y1 > y2)

\* OrderedDateTime.__lt__, __le__, __gt__, __ge__
Ordered_compare(rel, a, b) ==
    IF IsError(_get_operands(a, b)) THEN _get_operands(a, b)
    ELSE YearThenDatetime(rel, year_(a), year_(b), _get_operands(a, b).dt1,
                          _get_operands(a, b).dt2)

\* Time.__lt__, __le__, __gt__, __ge__
Time_compare(rel, a, b) ==
    IF IsError(_get_operands(a, b)) THEN _get_operands(a, b)
    ELSE dt_order(rel, _get_operands(a, b).dt1, _get_operands(a, b).dt2)

\* a rel b for two AbstractDateTime objects, rel one of ==, !=, <, <=, >, >=
compare(rel, a, b) ==
    IF rel = "==" THEN __eq__(a, b)
    ELSE IF rel = "!=" THEN __ne__(a, b)
    ELSE IF isinstance(a, "Time") THEN Time_compare(rel, a, b)
    ELSE Ordered_compare(rel, a, b)

\* the objects a comparison leaves behind: what _get_operands made of them
after_compare(a, b) ==
    LET o == _get_operands(a, b)
    IN  IF IsError(o) THEN <<a, b>> ELSE <<o.self, o.other>>

\* divmod over the year cycles of fromdelta: the years and the days left
YearBlocks(days0) ==
    LET y400 == days0 \div DAYS_IN_400Y
        d1   == days0 % DAYS_IN_400Y
        y100 == d1 \div DAYS_IN_100Y
        d2   == d1 % DAYS_IN_100Y
        y4   == d2 \div DAYS_IN_4Y
        d3   == d2 % DAYS_IN_4Y
        y1   == d3 \div 365
        d4   == d3 % 365
    IN  [years |-> y400 * 400 + y100 * 100 + y4 * 4 + y1,
         last  |-> y1 = 4 \/ y100 = 4,
         days  |-> d4]

\* the except OverflowError branch of fromdelta: the year and the datetime
FromDeltaOverflow(delta) ==
    LET days == delta.days
        pos  == YearBlocks(days)
        pyear == IF pos.last THEN pos.years + 1 - 1 ELSE pos.years + 1
        pdays == IF pos.last THEN 365 ELSE pos.days
        neg  == YearBlocks(-days - 366)
        nyear == IF neg.last THEN -neg.years - 2 + 1 ELSE -neg.years - 2
        ndays == IF neg.last THEN 365 ELSE neg.days
        ntd  == timedelta(-ndays, delta.seconds, delta.microseconds)
    IN  IF days > 0
        THEN [year |-> pyear,
              dt |-> dt_add(datetime(IF isleap(pyear) THEN 4 ELSE 6, 1, 1, 0, 0, 0, 0, None),
                            timedelta(pdays, delta.seconds, delta.microseconds))]
        ELSE IF days >= -366
        THEN [year |-> -1,
              dt |-> dt_add(datetime(5, 1, 1, 0, 0, 0, 0, None),
                            timedelta(days, delta.seconds, delta.microseconds))]
        ELSE IF ~td_bool(ntd)
        THEN [year |-> nyear + 1,
              dt |-> datetime(IF isleap(nyear + 1) THEN 4 ELSE 6, 1, 1, 0, 0, 0, 0, None)]
        ELSE [year |-> nyear,
              dt |-> dt_add(datetime(IF isleap(nyear + 1) THEN 5 ELSE 7, 1, 1, 0, 0, 0, 0,
                                     None), ntd)]

\* the timezone fromdelta gives a Date whose delta carries hours or minutes:
\* the datetime with its new tzinfo, moved to the next day past 14:00
AdjustTimezone(dt) ==
    LET early == dt.hour < 14 \/ (dt.hour = 14 /\ dt.minute = 0)
        tz    == IF early THEN Timezone(-dt.hour * 3600 - dt.minute * 60)
                 ELSE Timezone((-dt.hour + 24) * 3600 - dt.minute * 60)
    IN  IF IsError(tz) THEN tz
        ELSE IF early THEN dt_replace_tzinfo(dt, Some(tz))
        ELSE dt_add(dt_replace_tzinfo(dt, Some(tz)), timedelta(1, 0, 0))

\* the year and the datetime fromdelta finds for delta: datetime(1, 1, 1) + delta,
\* or what the except OverflowError branch computes
FromDeltaFound(delta, direct) ==
    IF IsError(direct) THEN FromDeltaOverflow(delta)
    ELSE [year |-> direct.year, dt |-> direct]

\* the return statements of fromdelta: cls(year, dt.month, dt.day,
\* tzinfo=dt.tzinfo) for a date, cls(year, dt.month, ..., dt.tzinfo) otherwise
FromDeltaNew(cls, year, dt) ==
    IF IsError(dt) THEN dt
    ELSE New(cls, IF issubclass(cls, "Date10")
                  THEN [DefaultKwargs EXCEPT !.year = year, !.month = dt.month,
                                             !.day = dt.day, !.tzinfo = dt.tzinfo]
                  ELSE [year |-> year, month |-> dt.month, day |-> dt.day,
                        hour |-> dt.hour, minute |-> dt.minute, second |-> dt.second,
                        microsecond |-> dt.microsecond, tzinfo |-> dt.tzinfo])

\* fromdelta after the try statement, found being the year and the datetime
FromDeltaAdjust(cls, found, adjust_timezone) ==
    FromDeltaNew(cls, found.year,
                 IF /\ ~IsError(found.dt) /\ issubclass(cls, "Date10") /\ adjust_timezone
                    /\ (found.dt.hour # 0 \/ found.dt.minute # 0)
                 THEN AdjustTimezone(found.dt) ELSE found.dt)

\* OrderedDateTime.fromdelta(delta, adjust_timezone) called on class cls
fromdelta(cls, delta, adjust_timezone) ==
    FromDeltaAdjust(cls, FromDeltaFound(delta, dt_add(Epoch, delta)), adjust_timezone)

\* OrderedDateTime.todelta
todelta(obj) ==
    LET year   == year_(obj)
        dt     == obj._dt
        tzinfo == IF IsNone(dt.tzinfo) THEN None ELSE Some(_utc_timezone)
        m_days == IF year > 0
                  THEN (IF isleap(year) THEN MONTH_DAYS_LEAP ELSE MONTH_DAYS)
                  ELSE (IF isleap(year + 1) THEN MONTH_DAYS_LEAP ELSE MONTH_DAYS)
        days   == (IF year > 0 THEN days_from_common_era(year - 1)
                   ELSE days_from_common_era(year)) + SumTo(m_days, 1, dt.month)
        delta  == dt_sub(dt, datetime(dt.year, dt.month, 1, 0, 0, 0, 0, tzinfo))
    IN  IF IsNone(obj._year)
        THEN dt_sub(operands(dt, Epoch)[1], operands(dt, Epoch)[2])
        ELSE timedelta(days + delta.days, delta.seconds, delta.microseconds)

\* op(x, y) for operator.add and operator.sub on timedeltas
td_op(sign, a, b) == IF sign = "+" THEN td_add(a, b) ELSE td_sub(a, b)

\* the YearMonthDuration branch of _date_operator
DateOperatorMonths(sign, a, d) ==
    LET moved == IF sign = "+" THEN a._dt.month - 1 + d.months
                 ELSE a._dt.month - 1 - d.months
        month == (moved % 12) + 1
        year  == year_(a) + (moved \div 12)
        day   == adjust_day(year, month, a._dt.day)
        anchor == IF year > 0 THEN year ELSE IF isleap(year) THEN 4 ELSE 6
        \* self._dt.replace(year=, month=, day=) raises like the constructor
        dt    == datetime(anchor, month, day, a._dt.hour, a._dt.minute, a._dt.second,
                          a._dt.microsecond, a._dt.tzinfo)
    IN  IF IsError(dt) THEN dt
        ELSE New(a.cls, [year |-> IF year <= 0 THEN year ELSE dt.year,
                         month |-> dt.month, day |-> dt.day, hour |-> dt.hour,
                         minute |-> dt.minute, second |-> dt.second,
                         microsecond |-> dt.microsecond, tzinfo |-> dt.tzinfo])

\* the value the timedelta and DayTimeDuration branches of _date_operator
\* return: what fromdelta made, given the UTC timezone when self has a timezone,
\* other is a DayTimeDuration and fromdelta made a naive value
DateOperatorValue(a, b, value) ==
    IF b.kind = "timedelta" \/ IsNone(a._dt.tzinfo) \/ IsError(value) THEN value
    ELSE IF IsNone(tzinfo_(value)) THEN set_tzinfo(value, Some(_utc_timezone))
    ELSE value

\* the timedelta and DayTimeDuration branches of _date_operator
DateOperatorDelta(sign, a, b) ==
    DateOperatorValue(a, b,
        fromdelta(a.cls,
                  td_op(sign, todelta(a),
                        IF b.kind = "timedelta" THEN b.value ELSE get_timedelta(b)),
                  b.kind = "timedelta"))

\* the isinstance(other, self.__class__) branch of _date_operator
DateOperatorDifference(a, b) ==
    fromtimedelta(IF IsNone(a._year) /\ IsNone(b._year)
                  THEN dt_sub(_get_operands(a, b).dt1, _get_operands(a, b).dt2)
                  ELSE td_sub(todelta(a), todelta(b)))

\* OrderedDateTime._date_operator(op, other); other is an AbstractDateTime, a
\* timedelta or a duration
_date_operator(sign, a, b) ==
    IF b.kind = "AbstractDateTime" /\ isinstance(b, a.cls)
    THEN DateOperatorDifference(a, b)
    ELSE IF b.kind = "timedelta" \/ (b.kind = "Duration" /\ isduration(b, "DayTimeDuration"))
    THEN DateOperatorDelta(sign, a, b)
    ELSE IF b.kind = "Duration" /\ isduration(b, "YearMonthDuration")
    THEN DateOperatorMonths(sign, a, b)
    ELSE Raise("TypeError")

\* OrderedDateTime.__add__
__add__(a, b) ==
    IF b.kind = "AbstractDateTime" /\ isinstance(b, "OrderedDateTime")
    THEN Raise("TypeError")
    ELSE _date_operator("+", a, b)

\* OrderedDateTime.__sub__
__sub__(a, b) == _date_operator("-", a, b)

-----------------------------------------------------------------------------
(* Timezone.fromstring over arbitrary short texts                          *)

MaxTextLen == 6

TzAlphabet == {"+", "-", ":", "Z", "0", "1", "4", "5", "6"}

TzTexts == UNION {[1..n -> TzAlphabet] : n \in 0..MaxTextLen}

InitTzText ==
    /\ text \in TzTexts
    /\ self = Nothing /\ other = Nothing /\ result = Nothing /\ op = "init"

ParseTimezone ==
    /\ op = "init"
    /\ result' = Timezone_fromstring(text)
    /\ op' = "Timezone.fromstring"
    /\ UNCHANGED <<self, other, text>>

NextTzText == ParseTimezone

SpecTzText == InitTzText /\ [][NextTzText]_vars

\* the lexical space of an XSD timezone: "Z", or sign HH:MM with HH in 00..14,
\* MM in 00..59 and MM = 00 when HH = 14
IsXsdTimezoneText(s) ==
    \/ s = <<"Z">>
    \/ /\ Len(s) = 6
       /\ s[1] \in {"+", "-"}
       /\ IsDigit(s[2]) /\ IsDigit(s[3]) /\ s[4] = ":" /\ IsDigit(s[5]) /\ IsDigit(s[6])
       /\ LET hh == DigitsVal(SubSeq(s, 2, 3))
              mm == DigitsVal(SubSeq(s, 5, 6))
          IN  hh <= 14 /\ mm <= 59 /\ (hh = 14 => mm = 0)

\* C9: Timezone.fromstring accepts exactly the XSD timezone texts and fails
\* with a lexical error (ValueError) on every other text.
C9_AcceptsExactlyXsdTimezones ==
    op = "Timezone.fromstring" =>
        IF IsXsdTimezoneText(text) THEN result.kind = "Timezone"
        ELSE result = Raise("ValueError")

-----------------------------------------------------------------------------
(* Every way of making a Timezone: the constructor, fromstring,            *)
(* fromduration, and the offset a Date takes from a raw timedelta          *)

\* offsets in seconds around and beyond the two ends of the legal range
OffsetSamples ==
    {h * 3600 + m * 60 : h \in -15..15, m \in {0, 1, 30, 59}} \cup {-50401, 50401}

\* texts sign HH:MM, signed or not, inside and outside the legal range
TzFieldTexts ==
    {sg \o ZFill(h, 2) \o <<":">> \o ZFill(m, 2) :
        sg \in {<<"+">>, <<"-">>, <<>>}, h \in 0..15, m \in {0, 1, 30, 59, 60}}
    \cup {<<"Z">>}

\* day-time durations whose seconds are the sampled offsets, whole or with a half
TzDurations ==
    {DayTimeDuration(Decimal(o, f)) : o \in OffsetSamples, f \in {0, DecUnit \div 2}}

\* the dates a raw timedelta is added to
TzDates ==
    {New("Date", [DefaultKwargs EXCEPT !.year = 2000, !.month = 2, !.day = 28]),
     New("Date10", [DefaultKwargs EXCEPT !.year = 1999, !.month = 12, !.day = 31,
                    !.tzinfo = Some(Timezone(-19800))]),
     New("Date", [DefaultKwargs EXCEPT !.year = -1, !.month = 1, !.day = 1,
                  !.tzinfo = Some(Timezone(50400))]),
     New("Date10", [DefaultKwargs EXCEPT !.year = 10000, !.month = 6, !.day = 30])}

\* raw timedeltas with every hour and minute of the day
TzDeltas ==
    {timedelta(d, h * 3600 + m * 60 + s, 0) :
        d \in {-1, 0}, h \in 0..23, m \in 0..59, s \in {0, 59}}

InitTz ==
    /\ self = Nothing /\ other = Nothing /\ text = <<>> /\ result = Nothing
    /\ op = "init"

\* Timezone(offset)
TzNew ==
    /\ op = "init"
    /\ \E o \in OffsetSamples :
          /\ other' = [kind |-> "timedelta", value |-> timedelta(0, o, 0)]
          /\ result' = Timezone(o)
    /\ op' = "Timezone"
    /\ UNCHANGED <<self, text>>

\* Timezone.fromstring(text)
TzFromString ==
    /\ op = "init"
    /\ \E t \in TzFieldTexts :
          /\ text' = t
          /\ result' = Timezone_fromstring(t)
    /\ op' = "Timezone.fromstring"
    /\ UNCHANGED <<self, other>>

\* Timezone.fromduration(duration)
TzFromDuration ==
    /\ op = "init"
    /\ \E d \in TzDurations :
          /\ other' = d
          /\ result' = Timezone_fromduration(d)
    /\ op' = "Timezone.fromduration"
    /\ UNCHANGED <<self, text>>

\* date + timedelta
TzDateAdd ==
    /\ op = "init"
    /\ \E d \in TzDates, td \in TzDeltas :
          /\ self' = d
          /\ other' = [kind |-> "timedelta", value |-> td]
          /\ result' = __add__(d, [kind |-> "timedelta", value |-> td])
    /\ op' = "Date.__add__"
    /\ UNCHANGED text

NextTz == TzNew \/ TzFromString \/ TzFromDuration \/ TzDateAdd

SpecTz == InitTz /\ [][NextTz]_vars

\* the Timezone instances a value holds
TimezonesOf(v) ==
    IF v.kind = "Timezone" THEN {v}
    ELSE IF v.kind = "AbstractDateTime" /\ ~IsNone(tzinfo_(v)) THEN {Get(tzinfo_(v))}
    ELSE {}

\* C10: every Timezone that exists has an offset within -14:00..+14:00: the
\* constructor fails with a range error (ValueError) outside it, and every
\* offset made from a string, from a duration or by Date arithmetic is inside.
C10_OffsetWithinRange ==
    /\ \A tz \in TimezonesOf(result) :
          -14 * 3600 <= tz.offset /\ tz.offset <= 14 * 3600
    /\ op = "Timezone" =>
          LET o == other.value.days * 86400 + other.value.seconds
          IN  IF -14 * 3600 <= o /\ o <= 14 * 3600
              THEN result = [kind |-> "Timezone", offset |-> o]
              ELSE result = Raise("ValueError")

\* a Date that took the offset -14:00 from the time of day of its delta
C10_DateCarriesMinOffset ==
    /\ op = "Date.__add__"
    /\ result.kind = "AbstractDateTime"
    /\ tzinfo_(result) = Some([kind |-> "Timezone", offset |-> -14 * 3600])

-----------------------------------------------------------------------------
(* Constructing, formatting and parsing temporal values                    *)

\* the classes of temporal values that are instantiated
TemporalClasses ==
    {"DateTime10", "DateTime", "Date10", "Date", "GregorianDay", "GregorianMonth",
     "GregorianMonthDay", "GregorianYear10", "GregorianYear", "GregorianYearMonth10",
     "GregorianYearMonth", "Time"}

\* the offsets given to constructors: none, zero, both ends of the range, two others
TemporalOffsets ==
    {None} \cup {Some(Timezone(o)) : o \in {0, 3600, -19800, 50400, -50400}}

\* the keyword arguments given to constructors: years on both sides of the
\* common era and of the four-digit range, year 0, whole and fractional seconds
TemporalKwargs ==
    {[year |-> y, month |-> m, day |-> d, hour |-> h, minute |-> 0, second |-> 0,
      microsecond |-> us, tzinfo |-> tz] :
        y \in {-10000, -401, -1, 0, 1, 2000, 9999, 10000}, m \in {1, 12},
        d \in {1, 31}, h \in {0, 23}, us \in {0, 1, 500000}, tz \in TemporalOffsets}

\* the year texts given to fromstring
YearTexts ==
    {<<"0", "0", "0", "0">>, <<"-", "0", "0", "0", "0">>, <<"-", "0", "0", "0", "1">>,
     <<"0", "0", "0", "1">>, <<"2", "0", "0", "0">>, <<"0", "0", "0", "0", "0">>,
     <<"1", "0", "0", "0", "0">>, <<"-", "1", "0", "0", "0", "0">>}

\* the offset texts given to fromstring
OffsetTexts ==
    {<<>>, <<"Z">>, <<"+", "0", "5", ":", "3", "0">>, <<"-", "1", "4", ":", "0", "0">>}

RECURSIVE LexicalText(_, _)
\* a text of the pattern toks with the year text y, the other fields being "02"
\* and the fraction left out
LexicalText(toks, y) ==
    IF toks = <<>> THEN <<>>
    ELSE (IF Head(toks) = "year" THEN y
          ELSE IF Head(toks) = "microsecond" THEN <<>>
          ELSE IF Head(toks) \in GroupNames THEN <<"0", "2">>
          ELSE <<Head(toks)>>) \o LexicalText(Tail(toks), y)

InitTemporal ==
    /\ self = Nothing /\ other = Nothing /\ text = <<>> /\ result = Nothing
    /\ op = "init"

\* v = cls(**kw)
Construct ==
    /\ op = "init"
    /\ \E cls \in TemporalClasses, kw \in TemporalKwargs :
          /\ other' = [kind |-> "call", cls |-> cls, kw |-> kw]
          /\ self' = New(cls, kw)
    /\ op' = "new"
    /\ UNCHANGED <<text, result>>

\* v = cls.fromstring(text)
ParseLexical ==
    /\ op = "init"
    /\ \E cls \in TemporalClasses, y \in YearTexts, tz \in OffsetTexts :
          /\ other' = [kind |-> "lexical", cls |-> cls, year |-> y]
          /\ text' = LexicalText(pattern(cls), y) \o tz
          /\ self' = fromstring(cls, LexicalText(pattern(cls), y) \o tz, None)
    /\ op' = "parsed"
    /\ UNCHANGED result

\* text = str(v), for a constructed value and for a parsed one
Format ==
    /\ op \in {"new", "parsed"}
    /\ self.kind = "AbstractDateTime"
    /\ text' = str(self)
    /\ op' = IF op = "new" THEN "str" ELSE "restr"
    /\ UNCHANGED <<self, other, result>>

\* type(v).fromstring(str(v)) for a constructed value v
Parse ==
    /\ op = "str"
    /\ result' = fromstring(self.cls, text, None)
    /\ op' = "fromstring"
    /\ UNCHANGED <<self, other, text>>

NextTemporal == Construct \/ ParseLexical \/ Format \/ Parse

SpecTemporal == InitTemporal /\ [][NextTemporal]_vars

\* C1: for every constructed temporal value v, fromstring(str(v)) succeeds and
\* returns a value equal to v.
C1_ParseOfStrEqualsValue ==
    op = "fromstring" =>
        /\ result.kind = "AbstractDateTime"
        /\ __eq__(result, self) = Bool(TRUE)

\* the classes whose pattern has a year
YearBearing(cls) == "year" \in groupindex(cls)

\* C6: year 0 is always rejected: a constructor of a year-bearing class given
\* year 0 fails with ValueError, fromstring of a 1.0 class fails on the year
\* text "0000", fromstring of a 1.1 class turns "0000" into the year -1, and
\* that value formats back with the year text "0000".
C6_YearZeroRejected ==
    /\ (op = "new" /\ YearBearing(other.cls) /\ other.kw.year = 0)
          => self = Raise("ValueError")
    /\ (op = "parsed" /\ YearBearing(other.cls) /\ other.year = <<"0", "0", "0", "0">>)
          => IF version(other.cls) = "1.0" THEN self = Raise("ValueError")
             ELSE self.kind = "AbstractDateTime" /\ year_(self) = -1
    /\ (op = "restr" /\ YearBearing(other.cls) /\ other.year = <<"0", "0", "0", "0">>)
          => /\ version(other.cls) = "1.1"
             /\ iso_year(self) = <<"0", "0", "0", "0">>
             /\ Len(text) >= 4 /\ SubSeq(text, 1, 4) = <<"0", "0", "0", "0">>

\* a 1.1 date parsed from the year text "0000" and formatted back
C6_YearZeroTextFormatted ==
    /\ op = "restr" /\ other.cls = "Date" /\ other.year = <<"0", "0", "0", "0">>
    /\ year_(self) = -1
    /\ text = <<"0", "0", "0", "0", "-", "0", "2", "-", "0", "2">>

-----------------------------------------------------------------------------
(* Constructing, formatting and parsing durations                          *)

DurationClasses == {"Duration", "YearMonthDuration", "DayTimeDuration"}

\* the seconds given to constructors: whole seconds of every field, multiples
\* of ten, and fractions down to the last digit the model keeps
SecondsSamples ==
    LET positive == {Decimal(s_, f) :
                        s_ \in {0, 1, 7, 10, 20, 59, 60, 70, 100, 3600, 36000, 86400,
                                90061, 864000},
                        f \in {0, 1, 10, DecUnit \div 2, DecUnit \div 10}}
    IN  positive \cup {dec_neg(d) : d \in positive}

\* the months given to constructors
MonthsSamples == {-25, -12, -1, 0, 1, 10, 12, 25}

InitDuration ==
    /\ self = Nothing /\ other = Nothing /\ text = <<>> /\ result = Nothing
    /\ op = "init"

\* v = Duration(months, seconds), YearMonthDuration(months), DayTimeDuration(seconds)
DurationConstruct ==
    /\ op = "init"
    /\ \E cls \in DurationClasses, m \in MonthsSamples, sec \in SecondsSamples :
          self' = IF cls = "YearMonthDuration" THEN YearMonthDuration(m)
                  ELSE IF cls = "DayTimeDuration" THEN DayTimeDuration(sec)
                  ELSE Duration(cls, m, sec)
    /\ op' = "new"
    /\ UNCHANGED <<other, text, result>>

\* text = str(v)
DurationFormat ==
    /\ op = "new"
    /\ self.kind = "Duration"
    /\ text' = duration_str(self)
    /\ op' = "str"
    /\ UNCHANGED <<self, other, result>>

\* type(v).fromstring(str(v))
DurationParse ==
    /\ op = "str"
    /\ result' = Duration_fromstring(self.cls, text)
    /\ op' = "fromstring"
    /\ UNCHANGED <<self, other, text>>

NextDuration == DurationConstruct \/ DurationFormat \/ DurationParse

SpecDuration == InitDuration /\ [][NextDuration]_vars

\* C2: for every constructed duration v, fromstring(str(v)) succeeds and
\* returns a duration equal to v.
C2_ParseOfStrEqualsDuration ==
    op = "fromstring" =>
        /\ result.kind = "Duration"
        /\ Duration_eq(result, self) = Bool(TRUE)

-----------------------------------------------------------------------------
(* Comparing durations                                                     *)

Relations == {"==", "!=", "<", "<=", ">", ">="}

\* seconds of whole days
DaysSeconds(n) == Decimal(n * 86400, 0)

\* the durations that are compared: months and days around the lengths of
\* months and years, and seconds that differ below a microsecond
DurationValues ==
    {DayTimeDuration(sec) :
        sec \in {DaysSeconds(n) : n \in {-30, 0, 28, 29, 30, 31, 365, 366}}
                \cup {Decimal(0, f) : f \in {1, 2, 10, DecUnit \div 2}}}
    \cup {YearMonthDuration(m) : m \in {-12, -1, 0, 1, 2, 12}}
    \cup {Duration("Duration", m, sec) :
            m \in {0, 1, 12},
            sec \in {DaysSeconds(n) : n \in {0, 28, 30, 31, 365, 366}}
                    \cup {Decimal(0, 1)}}
    \cup {Duration("Duration", -1, dec_zero), Duration("Duration", -1, DaysSeconds(-30))}

InitDurationCompare ==
    /\ self = Nothing /\ other = Nothing /\ text = <<>> /\ result = Nothing
    /\ op = "init"

\* a rel b
DurationCompare ==
    /\ op = "init"
    /\ \E a \in DurationValues, b \in DurationValues, rel \in Relations :
          /\ self' = a
          /\ other' = b
          /\ op' = rel
          /\ result' = Duration_compare(rel, a, b)
    /\ UNCHANGED text

NextDurationCompare == DurationCompare

SpecDurationCompare == InitDurationCompare /\ [][NextDurationCompare]_vars

\* the time that elapses when the duration d is applied at the first day of
\* the anchor month ym, in seconds: the days of the calendar between the two
\* dates, and the seconds of d
ElapsedAt(ym, d) ==
    LET t == ym[1] * 12 + (ym[2] - 1) + d.months
    IN  Decimal((ymd2ord(t \div 12, (t % 12) + 1, 1) - ymd2ord(ym[1], ym[2], 1)) * 86400
                + d.seconds.s, d.seconds.f)

\* x rel y for two numbers of seconds
ElapsedRelated(rel, x, y) ==
    CASE rel = "<"  -> dec_lt(x, y)
      [] rel = "<=" -> ~dec_lt(y, x)
      [] rel = ">"  -> dec_lt(y, x)
      [] rel = ">=" -> ~dec_lt(x, y)

\* C4: for two durations of one class, a < b, a <= b, a > b and a >= b are true
\* exactly when the relation holds between the elapsed times of a and b at all
\* four anchor dates; a == b is true exactly when months and seconds are equal.
C4_OrderingByAnchors ==
    /\ (op \in {"<", "<=", ">", ">="} /\ self.cls = other.cls) =>
          result = Bool(\A ym \in DurationAnchors :
                            ElapsedRelated(op, ElapsedAt(ym, self), ElapsedAt(ym, other)))
    /\ op = "==" =>
          result = Bool(self.months = other.months /\ self.seconds = other.seconds)

\* the two durations of C5, in either order
IsMonthAgainstDays(a, b) ==
    {a, b} = {YearMonthDuration(1), DayTimeDuration(DaysSeconds(28))}

\* C5 as stated: YearMonthDuration(1) and DayTimeDuration(28 days), in either
\* order, give false for < and for >.
C5_MonthAgainstDaysIsFalse ==
    (op \in {"<", ">"} /\ IsMonthAgainstDays(self, other)) => result = Bool(FALSE)

\* C5: YearMonthDuration(1) and DayTimeDuration(28 days), in either order, are
\* not ordered at all: <, <=, > and >= raise TypeError and only == gives false.
\* Both < and > give false for durations of one class: Duration(months=1) and
\* Duration(seconds=28 days).
C5_MonthAgainstDaysRaises ==
    /\ IsMonthAgainstDays(self, other) =>
          /\ op \in {"<", "<=", ">", ">="} => result = Raise("TypeError")
          /\ op = "==" => result = Bool(FALSE)
    /\ ({self, other} = {Duration("Duration", 1, dec_zero),
                         Duration("Duration", 0, DaysSeconds(28))}
        /\ op \in {"<", ">"}) => result = Bool(FALSE)

\* YearMonthDuration(1) < DayTimeDuration(28 days) has been evaluated
C5_MonthLessThanDaysEvaluated ==
    /\ op = "<"
    /\ self = YearMonthDuration(1)
    /\ other = DayTimeDuration(DaysSeconds(28))
    /\ result = Raise("TypeError")

-----------------------------------------------------------------------------
(* Comparing temporal values                                               *)

\* the keyword arguments of the values that are compared: two years, two hours,
\* no offset, offset zero and another offset
CompareKwargs ==
    {[DefaultKwargs EXCEPT !.year = y, !.month = 6, !.day = 15, !.hour = h, !.tzinfo = tz] :
        y \in {2000, -5}, h \in {0, 12},
        tz \in {None, Some(Timezone(0)), Some(Timezone(-18000))}}

CompareValues == {New(cls, kw) : cls \in TemporalClasses, kw \in CompareKwargs}

InitCompare ==
    /\ self = Nothing /\ other = Nothing /\ text = <<>> /\ result = Nothing
    /\ op = "init"

\* the two operands of a comparison
Operands ==
    /\ op = "init"
    /\ self' \in CompareValues
    /\ other' \in CompareValues
    /\ op' = "operands"
    /\ UNCHANGED <<text, result>>

\* self rel other
Compare ==
    /\ op = "operands"
    /\ \E rel \in Relations :
          /\ op' = rel
          /\ result' = compare(rel, self, other)
    /\ self' = after_compare(self, other)[1]
    /\ other' = after_compare(self, other)[2]
    /\ UNCHANGED text

NextCompare == Operands \/ Compare

SpecCompare == InitCompare /\ [][NextCompare]_vars

\* v with the offset zero when it has no offset
AsUtc(v) == IF IsNone(tzinfo_(v)) THEN set_tzinfo(v, Some(Timezone(0))) ELSE v

\* two values of one class of which exactly one has no offset
OneNaive(a, b) == a.cls = b.cls /\ IsNone(tzinfo_(a)) # IsNone(tzinfo_(b))

\* C7: for two values of one class of which exactly one has no offset, ==, <,
\* <=, >, >= give what they give when the naive one has the offset zero, so a
\* naive value equals the same wall-clock value with offset +00:00; the
\* comparison leaves both operands with the offsets they had.
C7_NaiveComparedAsUtc ==
    [][(op = "operands" /\ op' \in {"==", "<", "<=", ">", ">="} /\ OneNaive(self, other))
        => /\ result' = compare(op', AsUtc(self), AsUtc(other))
           /\ AsUtc(self) = AsUtc(other) => result' = Bool(op' \in {"==", "<=", ">="})
           /\ tzinfo_(self') = tzinfo_(self)
           /\ tzinfo_(other') = tzinfo_(other)]_vars

\* a naive value found equal to the same wall-clock value with offset +00:00
C7_NaiveEqualsUtc ==
    /\ op = "=="
    /\ self.cls = "DateTime"
    /\ IsNone(tzinfo_(self))
    /\ other = set_tzinfo(self, Some(Timezone(0)))
    /\ result = Bool(TRUE)

\* two values of classes neither of which derives from the other
Unrelated(a, b) == ~issubclass(a.cls, b.cls) /\ ~issubclass(b.cls, a.cls)

\* C8 as stated: every one of ==, <, <=, >, >= on values of unrelated classes
\* raises TypeError.
C8_UnrelatedAlwaysRaise ==
    (op \in {"==", "<", "<=", ">", ">="} /\ Unrelated(self, other))
        => result = Raise("TypeError")

\* C8: on values of unrelated classes <, <=, >, >= raise TypeError, while ==
\* gives false and != gives true.
C8_UnrelatedRaiseOrUnequal ==
    (op \in Relations /\ Unrelated(self, other))
        => result = IF op = "==" THEN Bool(FALSE)
                    ELSE IF op = "!=" THEN Bool(TRUE)
                    ELSE Raise("TypeError")

\* a Date has been compared with a DateTime of the same day
C8_DateAgainstDateTime ==
    /\ op = "<"
    /\ self.cls = "Date" /\ other.cls = "DateTime"
    /\ year_(self) = year_(other) /\ tzinfo_(self) = tzinfo_(other)
    /\ result = Raise("TypeError")

-----------------------------------------------------------------------------
(* Adding a day-time duration to a date and subtracting it again           *)

\* the dates and date-times a duration is added to, with and without offset
ArithDates ==
    {New(cls, [DefaultKwargs EXCEPT !.year = y, !.month = md[1], !.day = md[2],
                                    !.hour = h, !.microsecond = us, !.tzinfo = tz]) :
        cls \in {"Date10", "Date", "DateTime10", "DateTime"},
        y \in {-1, 1999, 2000}, md \in {<<1, 1>>, <<2, 28>>, <<12, 31>>},
        h \in {0, 23}, us \in {0, 500000},
        tz \in {None, Some(Timezone(0)), Some(Timezone(18000)), Some(Timezone(-3600))}}

\* the day-time durations: whole days, parts of a day, a fraction of a second
ArithDurations ==
    {DayTimeDuration(sec) :
        sec \in {DaysSeconds(n) : n \in {-366, -1, 0, 1, 2, 366}}
                \cup {Decimal(43200, 0), Decimal(129600, 0), dec_neg(Decimal(3600, 0)),
                      Decimal(0, DecUnit \div 2)}}

InitArith ==
    /\ self = Nothing /\ other = Nothing /\ text = <<>> /\ result = Nothing
    /\ op = "init"

\* d + delta
Add ==
    /\ op = "init"
    /\ \E d \in ArithDates, delta \in ArithDurations :
          /\ self' = d
          /\ other' = delta
          /\ result' = __add__(d, delta)
    /\ op' = "add"
    /\ UNCHANGED text

\* (d + delta) - delta
Sub ==
    /\ op = "add"
    /\ result.kind = "AbstractDateTime"
    /\ result' = __sub__(result, other)
    /\ op' = "sub"
    /\ UNCHANGED <<self, other, text>>

NextArith == Add \/ Sub

SpecArith == InitArith /\ [][NextArith]_vars

\* C3: for a Date or DateTime d and a day-time duration delta, d + delta is a
\* value and (d + delta) - delta is a value equal to d.
C3_AddThenSubIsIdentity ==
    /\ op = "add" => result.kind = "AbstractDateTime"
    /\ op = "sub" => /\ result.kind = "AbstractDateTime"
                     /\ __eq__(result, self) = Bool(TRUE)

-----------------------------------------------------------------------------
(* Constructing a date-time at hour 24                                     *)

\* the keyword arguments given to the date-time constructors: the ends and the
\* inside of months and years, years on both sides of the common era and of the
\* four-digit range, hours 0, 23 and 24
MidnightKwargs ==
    {[year |-> y, month |-> md[1], day |-> md[2], hour |-> h, minute |-> mi,
      second |-> s, microsecond |-> 0, tzinfo |-> tz] :
        y \in {-5, -1, 1, 2000, 9999, 10000},
        md \in {<<1, 1>>, <<1, 31>>, <<2, 28>>, <<2, 29>>, <<6, 30>>, <<12, 31>>},
        h \in {0, 23, 24}, mi \in {0, 1}, s \in {0, 1},
        tz \in {None, Some(Timezone(3600))}}

InitMidnight ==
    /\ self = Nothing /\ other = Nothing /\ text = <<>> /\ result = Nothing
    /\ op = "init"

\* v = cls(**kw) for a date-time class
ConstructDateTime ==
    /\ op = "init"
    /\ \E cls \in {"DateTime10", "DateTime"}, kw \in MidnightKwargs :
          /\ other' = [kind |-> "call", cls |-> cls, kw |-> kw]
          /\ self' = New(cls, kw)
    /\ op' = "new"
    /\ UNCHANGED <<text, result>>

NextMidnight == ConstructDateTime

SpecMidnight == InitMidnight /\ [][NextMidnight]_vars

\* the keyword arguments with the time of day set to 00:00:00
AtMidnight(kw) == [kw EXCEPT !.hour = 0, !.minute = 0, !.second = 0]

\* cls accepts the date of kw
IsValidDate(cls, kw) == ~IsError(New(cls, AtMidnight(kw)))

\* the keyword arguments of 00:00:00 of the calendar day that follows the date
\* of kw; the year after -1 is 1
NextDay(cls, kw) ==
    IF IsValidDate(cls, [kw EXCEPT !.day = kw.day + 1])
    THEN AtMidnight([kw EXCEPT !.day = kw.day + 1])
    ELSE IF kw.month < 12
    THEN AtMidnight([kw EXCEPT !.month = kw.month + 1, !.day = 1])
    ELSE AtMidnight([kw EXCEPT !.year = IF kw.year = -1 THEN 1 ELSE kw.year + 1,
                               !.month = 1, !.day = 1])

\* C11: a date-time constructed with hour 24, minute 0 and second 0 on a valid
\* date is the value of 00:00:00 of the next calendar day, also on the last day
\* of a month, on 31 December and for years outside 1..9999; hour 24 with a
\* minute or a second that is not 0 is rejected.
C11_Hour24IsNextMidnight ==
    (op = "new" /\ other.kw.hour = 24 /\ IsValidDate(other.cls, other.kw)) =>
        IF other.kw.minute = 0 /\ other.kw.second = 0
        THEN /\ self.kind = "AbstractDateTime"
             /\ __eq__(self, New(other.cls, NextDay(other.cls, other.kw))) = Bool(TRUE)
        ELSE IsError(self)

-----------------------------------------------------------------------------
(* Adding and subtracting year-month durations                             *)

\* the dates and date-times shifted by months: days 15 and 31, the first and
\* the last month, years next to the bounds of 1..9999 and before the common era
MonthDates ==
    {New(cls, [year |-> y, month |-> md[1], day |-> md[2], hour |-> 10, minute |-> 5,
               second |-> 3, microsecond |-> 0, tzinfo |-> tz]) :
        cls \in {"Date10", "Date", "DateTime10", "DateTime"},
        y \in {-5, -1, 1, 2000, 9999, 10000},
        md \in {<<1, 15>>, <<1, 31>>, <<3, 31>>, <<12, 31>>},
        tz \in {None, Some(Timezone(18000))}}

\* the year-month durations: less and more than a year in both directions
MonthDurations == {YearMonthDuration(n) : n \in {-13, -12, -1, 0, 1, 11, 12, 14}}

InitMonths ==
    /\ self = Nothing /\ other = Nothing /\ text = <<>> /\ result = Nothing
    /\ op = "init"

\* d + y
AddMonths ==
    /\ op = "init"
    /\ \E d \in MonthDates, y \in MonthDurations :
          /\ self' = d
          /\ other' = y
          /\ result' = __add__(d, y)
    /\ op' = "add"
    /\ UNCHANGED text

\* d - y
SubMonths ==
    /\ op = "init"
    /\ \E d \in MonthDates, y \in MonthDurations :
          /\ self' = d
          /\ other' = y
          /\ result' = __sub__(d, y)
    /\ op' = "sub"
    /\ UNCHANGED text

NextMonths == AddMonths \/ SubMonths

SpecMonths == InitMonths /\ [][NextMonths]_vars

\* the months from January of year 1 to the month of d, on the calendar
\* without a year 0
MonthIndex(d) ==
    12 * (IF year_(d) > 0 THEN year_(d) - 1 ELSE year_(d)) + d._dt.month - 1

\* the year and the month at n months from January of year 1
MonthAt(n) ==
    [year  |-> IF n \div 12 >= 0 THEN (n \div 12) + 1 ELSE n \div 12,
     month |-> (n % 12) + 1]

\* the number of days of the month in the year, for the values of cls
DaysOfMonth(cls, year, month) ==
    CHOOSE n \in 28..31 :
        /\ ~IsError(New(cls, [DefaultKwargs EXCEPT !.year = year, !.month = month,
                                                   !.day = n]))
        /\ n = 31 \/ IsError(New(cls, [DefaultKwargs EXCEPT !.year = year,
                                                            !.month = month,
                                                            !.day = n + 1]))

\* v is the value of d's variant in the month ym, with the day of d clamped to
\* the length of that month and the time of day and the offset of d
IsShifted(v, d, ym) ==
    /\ v.kind = "AbstractDateTime"
    /\ v.cls = d.cls
    /\ year_(v) = ym.year
    /\ v._dt.month = ym.month
    /\ v._dt.day = Min(d._dt.day, DaysOfMonth(d.cls, ym.year, ym.month))
    /\ v._dt.hour = d._dt.hour
    /\ v._dt.minute = d._dt.minute
    /\ v._dt.second = d._dt.second
    /\ v._dt.microsecond = d._dt.microsecond
    /\ tzinfo_(v) = tzinfo_(d)

\* C12: for a Date or DateTime d and a YearMonthDuration y, d + y and d - y are
\* values of d's variant in the month of d shifted by y.months on the calendar
\* without a year 0, with the day clamped to the length of the target month and
\* the time of day and the offset of d, also across the 1 BCE / 1 CE boundary
\* and outside 1..9999.
C12_MonthsShiftYearAndMonth ==
    /\ op = "add" => IsShifted(result, self, MonthAt(MonthIndex(self) + other.months))
    /\ op = "sub" => IsShifted(result, self, MonthAt(MonthIndex(self) - other.months))

-----------------------------------------------------------------------------
(* Parsing duration lexical forms                                          *)

\* the components of the lexical forms given to Duration.fromstring: each of
\* nY, nM, nD, nH, nM, nS present or not, values over the carry limits (13
\* months, 25 hours, 61 minutes, 90 seconds), a fraction of a second, the
\* designator T with and without a component after it
DurationForms ==
    {f \in [neg : BOOLEAN,
            Y : {None, Some(0), Some(1)}, M : {None, Some(13)}, D : {None, Some(1)},
            T : BOOLEAN,
            H : {None, Some(25)}, Mi : {None, Some(61)},
            S : {None, Some(<<90, 0>>), Some(<<1, 5>>)}] :
        ~f.T => (IsNone(f.H) /\ IsNone(f.Mi) /\ IsNone(f.S))}

\* the text of the component v with its designator
FieldText(v, letter) == IF IsNone(v) THEN <<>> ELSE NatStr(Get(v)) \o <<letter>>

\* the text of the seconds component: whole seconds and tenths
SecondsText(v) ==
    IF IsNone(v) THEN <<>>
    ELSE NatStr(Get(v)[1])
         \o (IF Get(v)[2] # 0 THEN <<".">> \o NatStr(Get(v)[2]) ELSE <<>>) \o <<"S">>

\* the lexical form of the components f
FormText(f) ==
    (IF f.neg THEN <<"-", "P">> ELSE <<"P">>)
    \o FieldText(f.Y, "Y") \o FieldText(f.M, "M") \o FieldText(f.D, "D")
    \o (IF f.T THEN <<"T">> ELSE <<>>)
    \o FieldText(f.H, "H") \o FieldText(f.Mi, "M") \o SecondsText(f.S)

InitDurationText ==
    /\ self = Nothing /\ other = Nothing /\ text = <<>> /\ result = Nothing
    /\ op = "init"

\* cls.fromstring(text) for a lexical form
ParseDurationText ==
    /\ op = "init"
    /\ \E cls \in DurationClasses, f \in DurationForms :
          /\ other' = [kind |-> "form", cls |-> cls, form |-> f]
          /\ text' = FormText(f)
          /\ result' = Duration_fromstring(cls, FormText(f))
    /\ op' = "parsed"
    /\ UNCHANGED self

NextDurationText == ParseDurationText

SpecDurationText == InitDurationText /\ [][NextDurationText]_vars

\* the number of the component v, 0 when it is absent
FieldNumber(v) == IF IsNone(v) THEN 0 ELSE Get(v)

\* 12 * years + months of the components f
FormMonths(f) == 12 * FieldNumber(f.Y) + FieldNumber(f.M)

\* 86400 * days + 3600 * hours + 60 * minutes + seconds of the components f
FormSeconds(f) ==
    Decimal(86400 * FieldNumber(f.D) + 3600 * FieldNumber(f.H) + 60 * FieldNumber(f.Mi)
            + (IF IsNone(f.S) THEN 0 ELSE Get(f.S)[1]),
            IF IsNone(f.S) THEN 0 ELSE Get(f.S)[2] * (DecUnit \div 10))

\* the form has no component, or a T with no component after it
IsEmptyForm(f) ==
    \/ IsNone(f.Y) /\ IsNone(f.M) /\ IsNone(f.D) /\ IsNone(f.H) /\ IsNone(f.Mi)
       /\ IsNone(f.S)
    \/ f.T /\ IsNone(f.H) /\ IsNone(f.Mi) /\ IsNone(f.S)

\* C13: parsing a duration form yields months = 12 * years + months and
\* seconds = 86400 * days + 3600 * hours + 60 * minutes + seconds, components
\* over their carry limits included, both negated after a leading '-'; a form
\* with no component, or with no component after T, is rejected; DayTimeDuration
\* rejects months that are not 0 and YearMonthDuration seconds that are not 0.
C13_ParsedFieldsFold ==
    op = "parsed" =>
        IF \/ IsEmptyForm(other.form)
           \/ other.cls = "DayTimeDuration" /\ FormMonths(other.form) # 0
           \/ other.cls = "YearMonthDuration" /\ FormSeconds(other.form) # dec_zero
        THEN IsError(result)
        ELSE /\ result.kind = "Duration"
             /\ result.cls = other.cls
             /\ result.months = IF other.form.neg THEN -FormMonths(other.form)
                                ELSE FormMonths(other.form)
             /\ result.seconds = IF other.form.neg THEN dec_neg(FormSeconds(other.form))
                                 ELSE FormSeconds(other.form)

\* reached: "-P1Y13M1DT25H61M90S" parsed as a Duration of -25 months and
\* -(86400 + 90000 + 3660 + 90) seconds
C13_NegativeCarriedFormParsed ==
    /\ op = "parsed"
    /\ other.cls = "Duration"
    /\ other.form = [neg |-> TRUE, Y |-> Some(1), M |-> Some(13), D |-> Some(1),
                     T |-> TRUE, H |-> Some(25), Mi |-> Some(61), S |-> Some(<<90, 0>>)]
    /\ result.kind = "Duration"
    /\ result.months = -25
    /\ result.seconds = dec_neg(Decimal(180150, 0))

-----------------------------------------------------------------------------
(* The lexical form of formatted durations                                 *)

\* the part of a whole number n with its designator, nothing when n is 0
PartText(n, letter) == IF n = 0 THEN <<>> ELSE NatStr(n) \o <<letter>>

\* the seconds of d below a minute are not 0
HasSecondsPart(d) ==
    Decimal(dec_abs(d.seconds).s % 60, dec_abs(d.seconds).f) # dec_zero

\* the form of the duration d up to its seconds part: '-' when d is negative,
\* 'P', the years, months and days that are not 0, and, when an hour, minute or
\* second part follows, 'T' and the hours and minutes that are not 0
PartsBeforeSeconds(d) ==
    LET m == Abs(d.months)
        s == dec_abs(d.seconds).s
    IN  (IF d.months < 0 \/ dec_lt(d.seconds, dec_zero) THEN <<"-", "P">> ELSE <<"P">>)
        \o PartText(m \div 12, "Y") \o PartText(m % 12, "M") \o PartText(s \div 86400, "D")
        \o (IF (s \div 3600) % 24 # 0 \/ (s \div 60) % 60 # 0 \/ HasSecondsPart(d)
            THEN <<"T">> ELSE <<>>)
        \o PartText((s \div 3600) % 24, "H") \o PartText((s \div 60) % 60, "M")

\* t is the form of the duration d made of its parts that are not 0, the
\* seconds part being a number followed by 'S'
HasOnlyNonZeroParts(t, d) ==
    IF HasSecondsPart(d)
    THEN /\ Len(t) > Len(PartsBeforeSeconds(d)) + 1
         /\ SubSeq(t, 1, Len(PartsBeforeSeconds(d))) = PartsBeforeSeconds(d)
         /\ t[Len(t)] = "S"
    ELSE t = PartsBeforeSeconds(d)

IsZeroDuration(d) == d.months = 0 /\ d.seconds = dec_zero

\* C14 as stated: the text of a duration of any variant whose months and
\* seconds are both 0 is "PT0S"; the text of any other duration is an optional
\* '-', 'P', the Y/M/D parts that are not 0, and 'T' with the H/M/S parts that
\* are not 0 only when there is one.
C14_ZeroIsPT0S ==
    op = "str" =>
        IF IsZeroDuration(self) THEN text = <<"P", "T", "0", "S">>
        ELSE HasOnlyNonZeroParts(text, self)

\* C14 amended: the text of a zero YearMonthDuration is "P0M", the text of a
\* zero Duration or DayTimeDuration is "PT0S"; the text of any other duration is
\* an optional '-', 'P', the Y/M/D parts that are not 0, and 'T' with the H/M/S
\* parts that are not 0 only when there is one.
C14_ZeroIsPT0SOrP0M ==
    op = "str" =>
        IF IsZeroDuration(self)
        THEN text = IF self.cls = "YearMonthDuration" THEN <<"P", "0", "M">>
                    ELSE <<"P", "T", "0", "S">>
        ELSE HasOnlyNonZeroParts(text, self)

\* reached: the zero YearMonthDuration formatted as "P0M"
C14_ZeroMonthsFormatted ==
    /\ op = "str"
    /\ self.cls = "YearMonthDuration"
    /\ self.months = 0
    /\ text = <<"P", "0", "M">>

-----------------------------------------------------------------------------
(* Multiplying and dividing durations by numbers                           *)

\* A number operand is [kind |-> "number", type |-> "int", "float" or
\* "Decimal", halves |-> n] and stands for n / 2: halves are exact in binary
\* floating point and in Decimal, so the products and quotients below are the
\* ones Python computes.

\* int(x): the quotient p / q, 0 < q, truncated towards zero
TruncDiv(p, q) == IF p >= 0 THEN p \div q ELSE -((-p) \div q)

\* int(float(p / q) + 0.5) for 0 < q
IntOfPlusHalf(p, q) == TruncDiv(2 * p + q, 2 * q)

\* the value of x / y as a Python number, kept as the pair of its terms
Ratio(type, num, den) == [kind |-> "ratio", type |-> type, num |-> num, den |-> den]

\* what dividing by a zero number raises: ZeroDivisionError (of which
\* decimal.DivisionByZero is a subclass), or decimal.InvalidOperation for a
\* Decimal 0 / 0
DivideByZero(decimal, zero) ==
    IF decimal /\ zero THEN Raise("InvalidOperation") ELSE Raise("ZeroDivisionError")

\* the seconds of a duration counted in units of 10 ** -FracDigits
SecondsUnits(d) == d.seconds.s * DecUnit + d.seconds.f

\* YearMonthDuration.__mul__
YearMonthDuration_mul(d, other_) ==
    IF other_.kind # "number" THEN Raise("TypeError")
    ELSE YearMonthDuration(IntOfPlusHalf(d.months * other_.halves, 2))

\* YearMonthDuration.__truediv__
YearMonthDuration_truediv(d, other_) ==
    IF other_.kind = "Duration" /\ isduration(other_, "YearMonthDuration")
    THEN (IF other_.months = 0 THEN Raise("ZeroDivisionError")
          ELSE Ratio("float", d.months, other_.months))
    ELSE IF other_.kind # "number" THEN Raise("TypeError")
    ELSE IF other_.halves = 0
    THEN DivideByZero(other_.type = "Decimal", d.months = 0)
    ELSE YearMonthDuration(
             IntOfPlusHalf(IF other_.halves < 0 THEN -2 * d.months ELSE 2 * d.months,
                           Abs(other_.halves)))

\* DayTimeDuration.__mul__: Decimal * float is a TypeError
DayTimeDuration_mul(d, other_) ==
    IF other_.kind # "number" \/ other_.type = "float" THEN Raise("TypeError")
    ELSE DayTimeDuration(
             Decimal(IntOfPlusHalf(SecondsUnits(d) * other_.halves, 2 * DecUnit), 0))

\* DayTimeDuration.__truediv__: Decimal / float is a TypeError
DayTimeDuration_truediv(d, other_) ==
    IF other_.kind = "Duration" /\ isduration(other_, "DayTimeDuration")
    THEN (IF other_.seconds = dec_zero THEN DivideByZero(TRUE, d.seconds = dec_zero)
          ELSE Ratio("Decimal", SecondsUnits(d), SecondsUnits(other_)))
    ELSE IF other_.kind # "number" \/ other_.type = "float" THEN Raise("TypeError")
    ELSE IF other_.halves = 0 THEN DivideByZero(TRUE, d.seconds = dec_zero)
    ELSE DayTimeDuration(
             Decimal(IntOfPlusHalf(IF other_.halves < 0 THEN -2 * SecondsUnits(d)
                                   ELSE 2 * SecondsUnits(d),
                                   Abs(other_.halves) * DecUnit), 0))

\* d * other; class Duration defines no __mul__
duration_mul(d, other_) ==
    IF d.cls = "YearMonthDuration" THEN YearMonthDuration_mul(d, other_)
    ELSE IF d.cls = "DayTimeDuration" THEN DayTimeDuration_mul(d, other_)
    ELSE Raise("TypeError")

\* d / other; class Duration defines no __truediv__
duration_truediv(d, other_) ==
    IF d.cls = "YearMonthDuration" THEN YearMonthDuration_truediv(d, other_)
    ELSE IF d.cls = "DayTimeDuration" THEN DayTimeDuration_truediv(d, other_)
    ELSE Raise("TypeError")

\* the durations that are scaled: months and seconds of both signs, halves of
\* a second, zero, and a Duration of the base class
ScaledDurations ==
    {YearMonthDuration(n) : n \in {-7, -3, -1, 0, 1, 3, 5}}
    \cup {DayTimeDuration(Decimal(0, n * (DecUnit \div 2))) : n \in {-3, -2, 0, 1, 3, 4}}
    \cup {Duration("Duration", 1, Decimal(1, 0))}

\* the operands: whole numbers and halves of both signs as int, float and
\* Decimal, a duration of each variant, a string
ScaleOperands ==
    {[kind |-> "number", type |-> t, halves |-> h] :
        t \in {"float", "Decimal"}, h \in {-3, -2, -1, 0, 1, 2, 3, 4}}
    \cup {[kind |-> "number", type |-> "int", halves |-> h] : h \in {-4, -2, 0, 2, 4}}
    \cup {YearMonthDuration(0), YearMonthDuration(2),
          DayTimeDuration(dec_zero), DayTimeDuration(Decimal(2, 0)), [kind |-> "str"]}

InitScale ==
    /\ self = Nothing /\ other = Nothing /\ text = <<>> /\ result = Nothing
    /\ op = "init"

\* d * other
Multiply ==
    /\ op = "init"
    /\ \E d \in ScaledDurations, n \in ScaleOperands :
          /\ self' = d
          /\ other' = n
          /\ result' = duration_mul(d, n)
    /\ op' = "mul"
    /\ UNCHANGED text

\* d / other
Divide ==
    /\ op = "init"
    /\ \E d \in ScaledDurations, n \in ScaleOperands :
          /\ self' = d
          /\ other' = n
          /\ result' = duration_truediv(d, n)
    /\ op' = "truediv"
    /\ UNCHANGED text

NextScale == Multiply \/ Divide

SpecScale == InitScale /\ [][NextScale]_vars

\* p / q, 0 < q, rounded to the nearest integer, halves away from zero
RoundHalfAway(p, q) ==
    IF p >= 0 THEN (2 * p + q) \div (2 * q) ELSE -((-2 * p + q) \div (2 * q))

\* C15: a YearMonthDuration times or divided by a number is the duration whose
\* months is the exact product or quotient rounded to the nearest integer,
\* halves away from zero, for positive and negative results; a DayTimeDuration
\* times or divided by a number is the duration whose seconds is the exact
\* decimal product or quotient, not rounded to whole seconds.
C15_ScaledExactlyOrHalfAway ==
    (/\ op \in {"mul", "truediv"}
     /\ other.kind = "number"
     /\ self.cls \in {"YearMonthDuration", "DayTimeDuration"}
     /\ op = "truediv" => other.halves # 0) =>
        /\ result.kind = "Duration"
        /\ result.cls = self.cls
        /\ (self.cls = "YearMonthDuration" /\ op = "mul") =>
               result.months = RoundHalfAway(self.months * other.halves, 2)
        /\ (self.cls = "YearMonthDuration" /\ op = "truediv") =>
               result.months =
                   RoundHalfAway(IF other.halves < 0 THEN -2 * self.months
                                 ELSE 2 * self.months, Abs(other.halves))
        /\ (self.cls = "DayTimeDuration" /\ op = "mul") =>
               2 * SecondsUnits(result) = SecondsUnits(self) * other.halves
        /\ (self.cls = "DayTimeDuration" /\ op = "truediv") =>
               SecondsUnits(result) * other.halves = 2 * SecondsUnits(self)

-----------------------------------------------------------------------------
(* The durations that construction, parsing and arithmetic produce         *)

\* YearMonthDuration.__add__
YearMonthDuration_add(d, other_) ==
    IF other_.kind = "Duration" /\ isduration(other_, "YearMonthDuration")
    THEN YearMonthDuration(d.months + other_.months)
    ELSE IF /\ other_.kind = "AbstractDateTime"
            /\ (isinstance(other_, "DateTime10") \/ isinstance(other_, "Date10"))
    THEN __add__(other_, d)
    ELSE Raise("TypeError")

\* YearMonthDuration.__sub__
YearMonthDuration_sub(d, other_) ==
    IF other_.kind = "Duration" /\ isduration(other_, "YearMonthDuration")
    THEN YearMonthDuration(d.months - other_.months)
    ELSE Raise("TypeError")

\* DayTimeDuration.__add__
DayTimeDuration_add(d, other_) ==
    IF other_.kind = "Duration" /\ isduration(other_, "DayTimeDuration")
    THEN DayTimeDuration(dec_add(d.seconds, other_.seconds))
    ELSE Raise("TypeError")

\* DayTimeDuration.__sub__
DayTimeDuration_sub(d, other_) ==
    IF other_.kind = "Duration" /\ isduration(other_, "DayTimeDuration")
    THEN DayTimeDuration(dec_sub(d.seconds, other_.seconds))
    ELSE Raise("TypeError")

\* d + other; class Duration defines no __add__
duration_add(d, other_) ==
    IF d.cls = "YearMonthDuration" THEN YearMonthDuration_add(d, other_)
    ELSE IF d.cls = "DayTimeDuration" THEN DayTimeDuration_add(d, other_)
    ELSE Raise("TypeError")

\* d - other; class Duration defines no __sub__
duration_sub(d, other_) ==
    IF d.cls = "YearMonthDuration" THEN YearMonthDuration_sub(d, other_)
    ELSE IF d.cls = "DayTimeDuration" THEN DayTimeDuration_sub(d, other_)
    ELSE Raise("TypeError")

\* arithmetic goes on from a duration of at most MaxMonths months and of less
\* than MaxSeconds seconds, in either direction
MaxMonths == 3

MaxSeconds == 1

InArithmeticRange(d) ==
    /\ d.kind = "Duration"
    /\ Abs(d.months) <= MaxMonths
    /\ -MaxSeconds <= d.seconds.s /\ d.seconds.s < MaxSeconds

\* the arguments given to the duration constructors: months and seconds of
\* both signs and 0
OpsMonths == {-2, 0, 1}

OpsSeconds == {Decimal(0, n * (DecUnit \div 2)) : n \in {-3, -1, 0, 1}}

\* the lexical forms parsed: each sign, months alone, seconds alone, both, zero
\* and a form without component
OpsTexts ==
    {<<"P", "1", "M">>, <<"-", "P", "1", "M">>, <<"P", "T", "0", ".", "5", "S">>,
     <<"-", "P", "T", "1", "S">>, <<"P", "1", "M", "T", "1", "S">>,
     <<"-", "P", "1", "M", "T", "1", "S">>, <<"P", "T", "0", "S">>, <<"P">>}

\* the operands added and subtracted: durations of each variant and a date
OpsDurations ==
    {YearMonthDuration(-2), YearMonthDuration(1),
     DayTimeDuration(Decimal(-2, DecUnit \div 2)), DayTimeDuration(Decimal(1, 0)),
     Duration("Duration", 1, Decimal(1, 0)),
     New("Date10", [DefaultKwargs EXCEPT !.year = 2000, !.month = 1, !.day = 31])}

InitDurationOps ==
    /\ self = Nothing /\ other = Nothing /\ text = <<>> /\ result = Nothing
    /\ op = "init"

\* Duration(months, seconds), YearMonthDuration(months), DayTimeDuration(seconds)
NewDuration ==
    /\ op = "init"
    /\ \E cls \in DurationClasses, m \in OpsMonths, sec \in OpsSeconds :
          /\ other' = [kind |-> "call", cls |-> cls, months |-> m, seconds |-> sec]
          /\ result' = IF cls = "YearMonthDuration" THEN YearMonthDuration(m)
                       ELSE IF cls = "DayTimeDuration" THEN DayTimeDuration(sec)
                       ELSE Duration(cls, m, sec)
    /\ op' = "new"
    /\ UNCHANGED <<self, text>>

\* cls.fromstring(text)
ParseDuration ==
    /\ op = "init"
    /\ \E cls \in DurationClasses, t \in OpsTexts :
          /\ other' = [kind |-> "class", cls |-> cls]
          /\ text' = t
          /\ result' = Duration_fromstring(cls, t)
    /\ op' = "parsed"
    /\ UNCHANGED self

\* d + other for a duration d made before
DurationAdd ==
    /\ InArithmeticRange(result)
    /\ \E o \in OpsDurations :
          /\ other' = o
          /\ result' = duration_add(result, o)
    /\ self' = result
    /\ op' = "add"
    /\ UNCHANGED text

\* d - other for a duration d made before
DurationSub ==
    /\ InArithmeticRange(result)
    /\ \E o \in OpsDurations :
          /\ other' = o
          /\ result' = duration_sub(result, o)
    /\ self' = result
    /\ op' = "sub"
    /\ UNCHANGED text

\* d * other for a duration d made before
DurationMul ==
    /\ InArithmeticRange(result)
    /\ \E o \in ScaleOperands :
          /\ other' = o
          /\ result' = duration_mul(result, o)
    /\ self' = result
    /\ op' = "mul"
    /\ UNCHANGED text

\* d / other for a duration d made before
DurationDiv ==
    /\ InArithmeticRange(result)
    /\ \E o \in ScaleOperands :
          /\ other' = o
          /\ result' = duration_truediv(result, o)
    /\ self' = result
    /\ op' = "truediv"
    /\ UNCHANGED text

NextDurationOps ==
    \/ NewDuration \/ ParseDuration
    \/ DurationAdd \/ DurationSub \/ DurationMul \/ DurationDiv

SpecDurationOps == InitDurationOps /\ [][NextDurationOps]_vars

\* months and seconds are of strictly opposite signs
SignsDiffer(months, seconds) ==
    \/ months < 0 /\ dec_lt(dec_zero, seconds)
    \/ 0 < months /\ dec_lt(seconds, dec_zero)

\* the fields of the duration d fit its variant and do not differ in sign
IsWellFormedDuration(d) ==
    /\ ~SignsDiffer(d.months, d.seconds)
    /\ d.cls = "YearMonthDuration" => d.seconds = dec_zero
    /\ d.cls = "DayTimeDuration" => d.months = 0

\* C16: every duration that exists, made by a constructor, by parsing or by
\* add, subtract, multiply or divide, has months and seconds that are not of
\* strictly opposite signs, seconds = 0 when it is a YearMonthDuration and
\* months = 0 when it is a DayTimeDuration; constructing a Duration from months
\* and seconds of opposite signs fails.
C16_DurationsWellFormed ==
    /\ \A v \in {self, other, result} : v.kind = "Duration" => IsWellFormedDuration(v)
    /\ (/\ op = "new"
        /\ other.cls = "Duration"
        /\ SignsDiffer(other.months, other.seconds)) => IsError(result)

\* reached: the construction Duration(months=1, seconds=-0.5) was rejected
C16_OppositeSignsRejected ==
    /\ op = "new"
    /\ other.cls = "Duration"
    /\ other.months = 1
    /\ other.seconds = Decimal(-1, DecUnit \div 2)
    /\ IsError(result)

-----------------------------------------------------------------------------
(* Python numbers: bool, int and float operands                            *)

\* A float is kept as the fraction in lowest terms that it stands for, a
\* negative zero as zero. The texts and numbers given are fractions of few
\* binary digits or quotients of them, for which the float that Python computes
\* is the one nearest to the fraction this model computes. The literals inf,
\* infinity and nan, which float() also accepts, are not among the texts given.

RECURSIVE GCD(_, _)
GCD(a, b) == IF b = 0 THEN a ELSE GCD(b, a % b)

Float(num, den) ==
    [kind |-> "float",
     num  |-> (IF den < 0 THEN -num ELSE num) \div GCD(Abs(num), Abs(den)),
     den  |-> Abs(den) \div GCD(Abs(num), Abs(den))]

Integer(n) == [kind |-> "int", value |-> n]

\* the float of the digits whole.frac times ten to the power exp
FloatOfDigits(neg, whole, frac, exp) ==
    Float((IF neg THEN -DigitsVal(whole \o frac) ELSE DigitsVal(whole \o frac))
              * Pow10(exp),
          Pow10(Len(frac)) * Pow10(-exp))

\* the digits of an optional digit part: none for an absent part, None for a
\* text that is not a digit part
DigitPart(s) == IF s = <<>> THEN Some(<<>>) ELSE IntBody(s)

\* float() on the parts of the mantissa around its point and on the exponent
FloatOfParts(neg, parts, exp) ==
    IF IsNone(exp) \/ Len(parts) > 2 THEN Raise("ValueError")
    ELSE IF Len(parts) = 1
    THEN (IF IsNone(IntBody(parts[1])) THEN Raise("ValueError")
          ELSE FloatOfDigits(neg, Get(IntBody(parts[1])), <<>>, Get(exp)))
    ELSE IF \/ IsNone(DigitPart(parts[1])) \/ IsNone(DigitPart(parts[2]))
            \/ (parts[1] = <<>> /\ parts[2] = <<>>)
    THEN Raise("ValueError")
    ELSE FloatOfDigits(neg, Get(DigitPart(parts[1])), Get(DigitPart(parts[2])), Get(exp))

\* the value of an exponent: an optional sign and a digit part
ExponentValue(s) ==
    IF StartsWith(s, "-")
    THEN (IF IsNone(IntBody(Tail_(s, 1))) THEN None
          ELSE Some(-DigitsVal(Get(IntBody(Tail_(s, 1))))))
    ELSE IF StartsWith(s, "+")
    THEN (IF IsNone(IntBody(Tail_(s, 1))) THEN None
          ELSE Some(DigitsVal(Get(IntBody(Tail_(s, 1))))))
    ELSE IF IsNone(IntBody(s)) THEN None
    ELSE Some(DigitsVal(Get(IntBody(s))))

\* float() on the text after the sign; k is the place of the exponent letter,
\* 0 when there is none
FloatOfBody(neg, body, k) ==
    IF k = 0 THEN FloatOfParts(neg, Split(body, "."), Some(0))
    ELSE FloatOfParts(neg, Split(SubSeq(body, 1, k - 1), "."),
                      ExponentValue(Tail_(body, k)))

\* the place of the first e or E of s, 0 when there is none
ExponentPlace(s) ==
    IF \A i \in 1..Len(s) : s[i] \notin {"e", "E"} THEN 0
    ELSE CHOOSE i \in 1..Len(s) :
             s[i] \in {"e", "E"} /\ \A j \in 1..(i - 1) : s[j] \notin {"e", "E"}

\* float() on the text t without surrounding blanks
FloatOfText(t) ==
    IF StartsWith(t, "-") \/ StartsWith(t, "+")
    THEN FloatOfBody(StartsWith(t, "-"), Tail_(t, 1), ExponentPlace(Tail_(t, 1)))
    ELSE FloatOfBody(FALSE, t, ExponentPlace(t))

\* float(s) for a text s
PyFloat(s) == FloatOfText(Strip(s))

IsNumber(x) == x.kind \in {"bool", "int", "float"}

\* the numerator and the denominator of a number; True is 1 and False is 0
Numerator(x) ==
    IF x.kind = "bool" THEN (IF x.value THEN 1 ELSE 0)
    ELSE IF x.kind = "int" THEN x.value
    ELSE x.num

Denominator(x) == IF x.kind = "float" THEN x.den ELSE 1

\* the number num / den of the type of the result of x op y: a float when x
\* or y is one or when op is the true division, an int otherwise
NumberOf(isfloat, num, den) == IF isfloat THEN Float(num, den) ELSE Integer(num \div den)

\* x % y for y # 0: x - y * floor(x / y), on the fractions xn / xd and yn / yd
ModOf(isfloat, xn, xd, yn, yd) ==
    NumberOf(isfloat,
             xn * yd - (IF yn < 0 THEN (-xn * yd) \div (-xd * yn)
                        ELSE (xn * yd) \div (xd * yn)) * yn * xd,
             xd * yd)

\* operator.<name>(x, y) on the fractions xn / xd and yn / yd of two numbers
NumberOperator(name, isfloat, xn, xd, yn, yd) ==
    CASE name = "==" -> Bool(xn * yd = yn * xd)
      [] name = "!=" -> Bool(xn * yd # yn * xd)
      [] name = "<"  -> Bool(xn * yd < yn * xd)
      [] name = "<=" -> Bool(xn * yd <= yn * xd)
      [] name = ">"  -> Bool(xn * yd > yn * xd)
      [] name = ">=" -> Bool(xn * yd >= yn * xd)
      [] name = "+"  -> NumberOf(isfloat, xn * yd + yn * xd, xd * yd)
      [] name = "-"  -> NumberOf(isfloat, xn * yd - yn * xd, xd * yd)
      [] name = "*"  -> NumberOf(isfloat, xn * yn, xd * yd)
      [] name = "/"  -> IF yn = 0 THEN Raise("ZeroDivisionError")
                        ELSE Float(xn * yd, xd * yn)
      [] name = "%"  -> IF yn = 0 THEN Raise("ZeroDivisionError")
                        ELSE ModOf(isfloat, xn, xd, yn, yd)

\* operator.<name>(x, y) for the values that UntypedAtomic._get_operands makes:
\* two numbers, two texts (compared for equality only), two temporal values
\* or two durations
PyOperator(name, x, y) ==
    IF IsNumber(x) /\ IsNumber(y)
    THEN NumberOperator(name, x.kind = "float" \/ y.kind = "float",
                        Numerator(x), Denominator(x), Numerator(y), Denominator(y))
    ELSE IF x.kind = "str" /\ y.kind = "str" /\ name = "=="
    THEN Bool(x.value = y.value)
    ELSE IF x.kind = "AbstractDateTime" /\ y.kind = "AbstractDateTime"
    THEN (IF name \in {"==", "!=", "<", "<=", ">", ">="} THEN compare(name, x, y)
          ELSE IF name = "+" THEN __add__(x, y)
          ELSE IF name = "-" THEN __sub__(x, y)
          ELSE Raise("TypeError"))
    ELSE IF x.kind = "Duration" /\ y.kind = "Duration"
    THEN (IF name \in {"==", "!=", "<", "<=", ">", ">="} THEN Duration_compare(name, x, y)
          ELSE IF name = "+" THEN duration_add(x, y)
          ELSE IF name = "-" THEN duration_sub(x, y)
          ELSE IF name = "*" THEN duration_mul(x, y)
          ELSE IF name = "/" THEN duration_truediv(x, y)
          ELSE Raise("TypeError"))
    ELSE Raise("TypeError")

-----------------------------------------------------------------------------
(* class UntypedAtomic                                                     *)

\* a Python str as an operand
Str(s) == [kind |-> "str", value |-> s]

\* UntypedAtomic.__init__ for a str, a bool, an UntypedAtomic, a temporal
\* value, a duration or an int
UntypedAtomic(value) ==
    IF value.kind = "str" THEN [kind |-> "UntypedAtomic", value |-> value.value]
    ELSE IF value.kind = "bool"
    THEN [kind |-> "UntypedAtomic",
          value |-> IF value.value THEN <<"t", "r", "u", "e">>
                    ELSE <<"f", "a", "l", "s", "e">>]
    ELSE IF value.kind = "UntypedAtomic"
    THEN [kind |-> "UntypedAtomic", value |-> value.value]
    ELSE IF value.kind = "AbstractDateTime"
    THEN [kind |-> "UntypedAtomic", value |-> str(value)]
    ELSE IF value.kind = "Duration"
    THEN [kind |-> "UntypedAtomic", value |-> duration_str(value)]
    ELSE IF value.kind = "int"
    THEN [kind |-> "UntypedAtomic", value |-> IntStr(value.value)]
    ELSE Raise("TypeError")

\* UntypedAtomic.__bool__ with the truth value of a Python str: any text that
\* is not empty is true
UntypedAtomic_bool_truthy(a) == Bool(a.value # <<>>)

\* UntypedAtomic.__bool__
UntypedAtomic_bool(a) ==
    IF Strip(a.value) \notin {<<"0">>, <<"1">>, <<"t", "r", "u", "e">>,
                              <<"f", "a", "l", "s", "e">>}
    THEN Raise("ValueError")
    ELSE Bool(Strip(a.value) \in {<<"1">>, <<"t", "r", "u", "e">>})

\* the couple of operands that _get_operands returns, or what making its first
\* member raised
Operands2(x, y) == IF IsError(x) THEN x ELSE IF IsError(y) THEN y
                   ELSE [kind |-> "operands", x |-> x, y |-> y]

\* UntypedAtomic._get_operands without force_float: two UntypedAtomic always
\* become floats
UntypedAtomic_get_operands_float(a, other_, force_float) ==
    IF other_.kind = "UntypedAtomic"
    THEN Operands2(PyFloat(a.value), PyFloat(other_.value))
    ELSE IF other_.kind = "bool" THEN Operands2(UntypedAtomic_bool(a), other_)
    ELSE IF other_.kind = "int" THEN Operands2(PyFloat(a.value), other_)
    ELSE IF other_.kind = "AbstractDateTime"
    THEN Operands2(fromstring(other_.cls, a.value, None), other_)
    ELSE IF other_.kind = "Duration"
    THEN Operands2(Duration_fromstring(other_.cls, a.value), other_)
    ELSE Operands2(PyFloat(a.value), other_)

\* UntypedAtomic._get_operands(other, force_float); the last branch,
\* type(other)(self.value), is taken by a float
UntypedAtomic_get_operands(a, other_, force_float) ==
    IF other_.kind = "UntypedAtomic"
    THEN (IF force_float THEN Operands2(PyFloat(a.value), PyFloat(other_.value))
          ELSE Operands2(Str(a.value), Str(other_.value)))
    ELSE IF other_.kind = "bool" THEN Operands2(UntypedAtomic_bool(a), other_)
    ELSE IF other_.kind = "int" THEN Operands2(PyFloat(a.value), other_)
    ELSE IF other_.kind = "AbstractDateTime"
    THEN Operands2(fromstring(other_.cls, a.value, None), other_)
    ELSE IF other_.kind = "Duration"
    THEN Operands2(Duration_fromstring(other_.cls, a.value), other_)
    ELSE Operands2(PyFloat(a.value), other_)

\* what a method returns for what the operator returned: __ne__ returns
\* not operator.eq(...)
Returned(negate, r) == IF negate /\ ~IsError(r) THEN Bool(~r.value) ELSE r

\* the method of UntypedAtomic for the operator name applied to the operands
UntypedAtomic_apply(name, ops) ==
    IF IsError(ops) THEN ops
    ELSE Returned(name = "!=",
                  PyOperator(IF name = "!=" THEN "==" ELSE name, ops.x, ops.y))

\* a <name> other: __eq__, __ne__, __lt__, __le__, __gt__, __ge__, __add__,
\* __sub__, __mul__, __truediv__, __mod__ of UntypedAtomic
UntypedAtomic_method(name, a, other_) ==
    UntypedAtomic_apply(name,
        UntypedAtomic_get_operands(a, other_, name \notin {"==", "!="}))

\* the operands in reversed order
Reversed(reverse, ops) ==
    IF reverse /\ ~IsError(ops) THEN [ops EXCEPT !.x = ops.y, !.y = ops.x] ELSE ops

\* other <name> a for a number other, whose own method returns NotImplemented:
\* the reflected comparison, __radd__ = __add__, __rmul__ = __mul__, and
\* __rsub__, __rtruediv__ on the reversed operands; there is no __rmod__
UntypedAtomic_rmethod(name, a, other_) ==
    IF name = "%" THEN Raise("TypeError")
    ELSE UntypedAtomic_apply(Reflected(name),
             Reversed(name \in {"-", "/"},
                      UntypedAtomic_get_operands(a, other_, name \notin {"==", "!="})))

-----------------------------------------------------------------------------
(* Comparing and combining untyped values                                  *)

\* the payloads of the untyped values: numbers written in several ways, with
\* blanks, an exponent and an underscore, the boolean lexical forms as they
\* are, with blanks and in capitals, a duration, a text that is no number and
\* the empty text
UntypedTexts ==
    {<<"5">>, <<"3">>, <<"5", ".", "0">>, <<" ", "5", " ">>, <<"2", ".", "5">>,
     <<"-", "1", ".", "5">>, <<"1", "e", "1">>, <<"1", "_", "0">>, <<"0">>, <<"1">>,
     <<"t", "r", "u", "e">>, <<"f", "a", "l", "s", "e">>,
     <<" ", "t", "r", "u", "e", " ">>, <<"T", "R", "U", "E">>,
     <<"P", "T", "1", "S">>, <<"a", "b", "c">>, <<>>}

\* the numbers an untyped value meets
NumberPeers == {Bool(TRUE), Bool(FALSE), Integer(0), Integer(1), Integer(3), Float(5, 2)}

\* the peers of an untyped value: untyped values, numbers, a duration, a date
UntypedPeers ==
    {UntypedAtomic(Str(t)) : t \in UntypedTexts} \cup NumberPeers
    \cup {DayTimeDuration(Decimal(1, 0)), New("Date10", DefaultKwargs)}

OperatorNames == {"==", "!=", "<", "<=", ">", ">=", "+", "-", "*", "/", "%"}

InitUntyped ==
    /\ self = Nothing /\ other = Nothing /\ text = <<>> /\ result = Nothing
    /\ op = "init"

\* UntypedAtomic(t) <name> peer
Operate ==
    /\ op = "init"
    /\ \E t \in UntypedTexts, peer \in UntypedPeers, name \in OperatorNames :
          /\ self' = UntypedAtomic(Str(t))
          /\ other' = peer
          /\ text' = <<name>>
          /\ result' = UntypedAtomic_method(name, UntypedAtomic(Str(t)), peer)
    /\ op' = "operate"

\* peer <name> UntypedAtomic(t) for a number peer
Reflect ==
    /\ op = "init"
    /\ \E t \in UntypedTexts, peer \in NumberPeers, name \in OperatorNames :
          /\ self' = UntypedAtomic(Str(t))
          /\ other' = peer
          /\ text' = <<name>>
          /\ result' = UntypedAtomic_rmethod(name, UntypedAtomic(Str(t)), peer)
    /\ op' = "reflected"

NextUntyped == Operate \/ Reflect

SpecUntyped == InitUntyped /\ [][NextUntyped]_vars

\* C17: for two UntypedAtomic operands, <, <=, >, >= and +, -, *, /, mod
\* operate on both payloads converted to floating point (and fail when one is
\* not a number), the arithmetic giving a float, while == and != compare the
\* two payloads as texts.
C17_UntypedPairAsFloatsOrTexts ==
    (op = "operate" /\ other.kind = "UntypedAtomic") =>
        IF text[1] = "==" THEN result = Bool(self.value = other.value)
        ELSE IF text[1] = "!=" THEN result = Bool(self.value # other.value)
        ELSE IF IsError(PyFloat(self.value)) \/ IsError(PyFloat(other.value))
        THEN IsError(result)
        ELSE /\ result = PyOperator(text[1], PyFloat(self.value), PyFloat(other.value))
             /\ text[1] \in {"<", "<=", ">", ">="} => result.kind = "bool"
             /\ text[1] \in {"+", "-", "*", "/", "%"} =>
                    \/ result.kind = "float"
                    \/ result = Raise("ZeroDivisionError") /\ PyFloat(other.value).num = 0

\* reached: UntypedAtomic("5") + UntypedAtomic("3") is the float 8.0
C17_FivePlusThreeIsEight ==
    /\ op = "operate"
    /\ self = UntypedAtomic(Str(<<"5">>))
    /\ other = UntypedAtomic(Str(<<"3">>))
    /\ text = <<"+">>
    /\ result = Float(8, 1)

\* the payload of v without surrounding blanks is a boolean lexical form
IsBooleanText(v) ==
    Strip(v.value) \in {<<"0">>, <<"1">>, <<"t", "r", "u", "e">>,
                        <<"f", "a", "l", "s", "e">>}

\* the boolean that the payload of v stands for
BooleanOf(v) == Bool(Strip(v.value) \in {<<"1">>, <<"t", "r", "u", "e">>})

-----------------------------------------------------------------------------
(* Integers of any size                                                    *)

\* A Python int that the integer constructors handle is kept as its sign and
\* the limbs of its magnitude in base 2^16, the least significant first and
\* the most significant not zero; zero has no limbs.

Big(sign, limbs) == [kind |-> "int", sign |-> sign, limbs |-> limbs]

\* the limbs of the natural number n < 2^31
LimbsOf(n) ==
    IF n = 0 THEN <<>>
    ELSE IF n < 2^16 THEN <<n>>
    ELSE <<n % 2^16, n \div 2^16>>

\* the int n
BigOf(n) == Big(IF n < 0 THEN -1 ELSE IF n = 0 THEN 0 ELSE 1, LimbsOf(Abs(n)))

\* 2**k
BigPow2(k) ==
    Big(1, [i \in 1..(k \div 16 + 1) |-> IF i = k \div 16 + 1 THEN 2^(k % 16) ELSE 0])

\* -a
BigNeg(a) == [a EXCEPT !.sign = -a.sign]

\* the magnitude with limbs x is less than the one with limbs y
LimbsLess(x, y) ==
    \/ Len(x) < Len(y)
    \/ /\ Len(x) = Len(y)
       /\ \E i \in 1..Len(x) :
             /\ x[i] < y[i]
             /\ \A j \in (i + 1)..Len(x) : x[j] = y[j]

\* a < b
BigLess(a, b) ==
    \/ a.sign < b.sign
    \/ a.sign = 1 /\ b.sign = 1 /\ LimbsLess(a.limbs, b.limbs)
    \/ a.sign = -1 /\ b.sign = -1 /\ LimbsLess(b.limbs, a.limbs)

-----------------------------------------------------------------------------
(* xpath2_constructors: the constructors of the integer types              *)

\* str.lower() on the capital letters of the texts given: those of the
\* literals of infinity and not-a-number and the hexadecimal digits
Lower(s) ==
    [i \in 1..Len(s) |->
        CASE s[i] = "I" -> "i" [] s[i] = "N" -> "n" [] s[i] = "F" -> "f"
          [] s[i] = "A" -> "a" [] s[i] = "B" -> "b" [] s[i] = "C" -> "c"
          [] s[i] = "D" -> "d" [] s[i] = "E" -> "e" [] OTHER -> s[i]]

\* int(float(value)) for a text: the literals inf and nan, which float()
\* accepts in any case and with a sign, overflow or are no integer, and a
\* number is truncated towards zero
IntOfFloatText(t) ==
    IF Lower(Strip(t)) \in {<<"i", "n", "f">>, <<"-", "i", "n", "f">>, <<"+", "i", "n", "f">>}
    THEN Raise("OverflowError")
    ELSE IF IsError(PyFloat(t)) THEN Raise("ValueError")
    ELSE BigOf(TruncDiv(PyFloat(t).num, PyFloat(t).den))

\* the conversion at the head of cast_to_integer, for a text or an int
ConvertedInteger(value) ==
    IF value.kind = "str"
    THEN (IF /\ Lower(Strip(value.value)) \in {<<"i", "n", "f">>, <<"-", "i", "n", "f">>}
             /\ Strip(value.value) \notin {<<"I", "N", "F">>, <<"-", "I", "N", "F">>}
          THEN Raise("ValueError")
          ELSE IntOfFloatText(value.value))
    ELSE value

\* the bound checks at the foot of cast_to_integer
BoundedInteger(r, lower_bound, higher_bound) ==
    IF r = Raise("ValueError") THEN Raise("FORG0001")
    ELSE IF r = Raise("OverflowError") THEN Raise("FOAR0002")
    ELSE IF ~IsNone(lower_bound) /\ BigLess(r, Get(lower_bound)) THEN Raise("FORG0001")
    ELSE IF ~IsNone(higher_bound) /\ ~BigLess(r, Get(higher_bound)) THEN Raise("FORG0001")
    ELSE r

cast_to_integer(value, lower_bound, higher_bound) ==
    BoundedInteger(ConvertedInteger(value), lower_bound, higher_bound)

\* the constructors registered for the integer types
cast(name, value) ==
    CASE name = "integer"            -> cast_to_integer(value, None, None)
      [] name = "nonNegativeInteger" -> cast_to_integer(value, Some(BigOf(0)), None)
      [] name = "positiveInteger"    -> cast_to_integer(value, Some(BigOf(1)), None)
      [] name = "nonPositiveInteger" -> cast_to_integer(value, None, Some(BigOf(1)))
      [] name = "negativeInteger"    -> cast_to_integer(value, None, Some(BigOf(0)))
      [] name = "long"  ->
             cast_to_integer(value, Some(BigNeg(BigPow2(127))), Some(BigPow2(127)))
      [] name = "int"   ->
             cast_to_integer(value, Some(BigNeg(BigPow2(63))), Some(BigPow2(63)))
      [] name = "short" ->
             cast_to_integer(value, Some(BigNeg(BigPow2(15))), Some(BigPow2(15)))
      [] name = "byte"  ->
             cast_to_integer(value, Some(BigNeg(BigPow2(7))), Some(BigPow2(7)))
      [] name = "unsignedLong"  -> cast_to_integer(value, Some(BigOf(0)), Some(BigPow2(128)))
      [] name = "unsignedInt"   -> cast_to_integer(value, Some(BigOf(0)), Some(BigPow2(64)))
      [] name = "unsignedShort" -> cast_to_integer(value, Some(BigOf(0)), Some(BigPow2(16)))
      [] name = "unsignedByte"  -> cast_to_integer(value, Some(BigOf(0)), Some(BigPow2(8)))

\* integer_validator(x): x is an int and no bool
integer_validator(x) == x.kind = "int"

\* lower <= x < upper
InRange(lower, x, upper) == ~BigLess(x, lower) /\ BigLess(x, upper)

\* XSD_BUILTIN_TYPES[name].validator(x) for the integer types
validator(name, x) ==
    /\ integer_validator(x)
    /\ CASE name = "integer" -> TRUE
         [] name = "long"  -> InRange(BigNeg(BigPow2(63)), x, BigPow2(63))
         [] name = "int"   -> InRange(BigNeg(BigPow2(31)), x, BigPow2(31))
         [] name = "short" -> InRange(BigNeg(BigPow2(15)), x, BigPow2(15))
         [] name = "byte"  -> InRange(BigNeg(BigPow2(7)), x, BigPow2(7))
         [] name = "positiveInteger"    -> BigLess(BigOf(0), x)
         [] name = "negativeInteger"    -> BigLess(x, BigOf(0))
         [] name = "nonPositiveInteger" -> ~BigLess(BigOf(0), x)
         [] name = "nonNegativeInteger" -> ~BigLess(x, BigOf(0))
         [] name = "unsignedLong"  -> InRange(BigOf(0), x, BigPow2(64))
         [] name = "unsignedInt"   -> InRange(BigOf(0), x, BigPow2(32))
         [] name = "unsignedShort" -> InRange(BigOf(0), x, BigPow2(16))
         [] name = "unsignedByte"  -> InRange(BigOf(0), x, BigPow2(8))

-----------------------------------------------------------------------------
(* Constructing integers at the bounds of their types                      *)

IntegerTypes ==
    {"long", "int", "short", "byte", "unsignedLong", "unsignedInt", "unsignedShort",
     "unsignedByte", "positiveInteger", "negativeInteger", "nonNegativeInteger",
     "nonPositiveInteger"}

\* the exponents of the bounds that the constructors and the validators name
BoundExponents == {7, 8, 15, 16, 31, 32, 63, 64, 127, 128}

\* 2**k - 1
BelowPow2(k) ==
    Big(1, [i \in 1..(IF k % 16 = 0 THEN k \div 16 ELSE k \div 16 + 1) |->
               IF i = k \div 16 + 1 THEN 2^(k % 16) - 1 ELSE 2^16 - 1])

\* 2**k + 1
AbovePow2(k) == [BigPow2(k) EXCEPT !.limbs[1] = @ + 1]

\* the integers given: zero, one, minus one, and every bound with its two
\* neighbours, of either sign
IntegerValues ==
    {BigOf(-1), BigOf(0), BigOf(1)}
    \cup {BelowPow2(k) : k \in BoundExponents} \cup {BigPow2(k) : k \in BoundExponents}
    \cup {AbovePow2(k) : k \in BoundExponents}
    \cup {BigNeg(BelowPow2(k)) : k \in BoundExponents}
    \cup {BigNeg(BigPow2(k)) : k \in BoundExponents}
    \cup {BigNeg(AbovePow2(k)) : k \in BoundExponents}

\* the texts given: integers, with blanks, with a fraction, beyond a byte, the
\* literals of infinity and not-a-number, and texts that are no number
IntegerTexts ==
    {<<"5">>, <<" ", "1", "2", " ">>, <<"1", ".", "9">>, <<"-", "1", ".", "9">>,
     <<"-", "0", ".", "5">>, <<"1", "2", "8">>, <<"-", "1", "2", "9">>,
     <<"2", "5", "6">>, <<"I", "N", "F">>, <<"-", "I", "N", "F">>, <<"i", "n", "f">>,
     <<"N", "a", "N">>, <<"a", "b", "c">>, <<>>}

InitIntegers ==
    /\ self = Nothing /\ other = Nothing /\ text = <<>> /\ result = Nothing
    /\ op = "init"

\* xs:<name>(value) for an int
CastInteger ==
    /\ op = "init"
    /\ \E name \in IntegerTypes \cup {"integer"}, v \in IntegerValues :
          /\ self' = v
          /\ text' = <<name>>
          /\ result' = cast(name, v)
    /\ other' = Nothing
    /\ op' = "cast"

\* xs:<name>(value) for a text
CastText ==
    /\ op = "init"
    /\ \E name \in IntegerTypes \cup {"integer"}, t \in IntegerTexts :
          /\ self' = Str(t)
          /\ text' = <<name>>
          /\ result' = cast(name, Str(t))
    /\ other' = Nothing
    /\ op' = "cast"

NextIntegers == CastInteger \/ CastText

SpecIntegers == InitIntegers /\ [][NextIntegers]_vars

\* C19: each constructor of an integer type returns the integer given exactly
\* when the validator that XSD_BUILTIN_TYPES keeps under the same name accepts
\* it (int in [-2^31, 2^31), long in [-2^63, 2^63), unsignedInt in [0, 2^32),
\* unsignedLong in [0, 2^64), ...), and fails for every integer outside that
\* range.
C19_ConstructorRangeIsValidatorRange ==
    (op = "cast" /\ self.kind = "int" /\ text[1] \in IntegerTypes) =>
        IF validator(text[1], self) THEN result = self
        ELSE result = Raise("FORG0001")

-----------------------------------------------------------------------------
(* The canonical text of values with fractional seconds                    *)

RECURSIVE TrimmedFraction(_, _)
\* the digits of us millionths of a second, us > 0, written on width places
\* and without the zeros at their end
TrimmedFraction(us, width) ==
    IF us % 10 = 0 THEN TrimmedFraction(us \div 10, width - 1) ELSE ZFill(us, width)

\* the zero-padded fields of a DateTime or Time value before the fraction
FieldsText(obj) ==
    IF isinstance(obj, "Time") THEN hms_str(obj)
    ELSE iso_year(obj) \o <<"-">> \o ZFill(obj._dt.month, 2) \o <<"-">>
         \o ZFill(obj._dt.day, 2) \o <<"T">> \o hms_str(obj)

\* the offset as Timezone formatting writes it, nothing for a naive value
OffsetText(obj) ==
    IF IsNone(tzinfo_(obj)) THEN <<>> ELSE Timezone_tzname(Get(tzinfo_(obj)))

\* C20: the text of a DateTime or Time value with a fraction of a second is
\* its zero-padded fields, a point, the digits of the fraction without the
\* zeros at their end, and the offset exactly as Timezone formatting writes
\* it, also when the text of the offset ends in the digit 0.
C20_FractionThenOffsetUnaltered ==
    (/\ op = "str"
     /\ isinstance(self, "DateTime10") \/ isinstance(self, "Time")
     /\ self._dt.microsecond # 0) =>
        text = FieldsText(self) \o <<".">> \o TrimmedFraction(self._dt.microsecond, 6)
               \o OffsetText(self)

-----------------------------------------------------------------------------
(* The life of a temporal value                                            *)

\* the values that live: dates, date-times and a time, with and without offset
LiveValues ==
    {New(cls, [DefaultKwargs EXCEPT !.year = y, !.hour = h, !.tzinfo = tz]) :
        cls \in {"Date10", "DateTime10", "DateTime", "Time"},
        y \in {-1, 2000}, h \in {0, 23},
        tz \in {None, Some(Timezone(0)), Some(Timezone(3600))}}

\* the values a living value is compared with
LivePeers ==
    {New(cls, [DefaultKwargs EXCEPT !.tzinfo = tz]) :
        cls \in {"Date10", "DateTime10", "Time"}, tz \in {None, Some(Timezone(3600))}}

\* the durations added to a living value and subtracted from it
LiveDurations == {DayTimeDuration(Decimal(3600, 0)), YearMonthDuration(1)}

\* the offsets assigned to the property tzinfo
LiveOffsets == {Some(Timezone(0)), Some(Timezone(3600)), Some(Timezone(-18000))}

InitLife ==
    /\ self = Nothing /\ other = Nothing /\ text = <<>> /\ result = Nothing
    /\ op = "init"

\* v = cls(**kw)
Born ==
    /\ op = "init"
    /\ \E v \in LiveValues : self' = v
    /\ op' = "new"
    /\ UNCHANGED <<other, text, result>>

\* v <rel> peer: _get_operands works on copies that datetime.replace returns
Compared ==
    /\ op # "init"
    /\ \E peer \in LivePeers, rel \in {"==", "!=", "<", "<=", ">", ">="} :
          /\ other' = peer
          /\ text' = <<rel>>
          /\ result' = compare(rel, self, peer)
    /\ op' = "compared"
    /\ UNCHANGED self

\* v + d and v - d: _date_operator builds a new value
Combined ==
    /\ op # "init"
    /\ isinstance(self, "Date10") \/ isinstance(self, "DateTime10")
    /\ \E d \in LiveDurations, sign \in {"+", "-"} :
          /\ other' = d
          /\ text' = <<sign>>
          /\ result' = IF sign = "+" THEN __add__(self, d) ELSE __sub__(self, d)
    /\ op' = "combined"
    /\ UNCHANGED self

\* str(v)
Formatted ==
    /\ op # "init"
    /\ text' = str(self)
    /\ other' = Nothing
    /\ result' = Nothing
    /\ op' = "formatted"
    /\ UNCHANGED self

\* v.tzinfo = tz
Assigned ==
    /\ op # "init"
    /\ \E tz \in LiveOffsets :
          /\ self' = set_tzinfo(self, tz)
          /\ other' = Nothing
          /\ text' = <<>>
          /\ result' = Nothing
    /\ op' = "assigned"

NextLife == Born \/ Compared \/ Combined \/ Formatted \/ Assigned

SpecLife == InitLife /\ [][NextLife]_vars

\* the value v is the value w, or w with an offset where w had none
SameOrBackfilled(w, v) ==
    \/ v = w
    \/ /\ IsNone(tzinfo_(w)) /\ ~IsNone(tzinfo_(v))
       /\ v = set_tzinfo(w, tzinfo_(v))

\* C21: over any sequence of comparisons, arithmetic, formatting and offset
\* assignments, no step changes the year, month, day, time of day or offset of
\* a temporal value, except that a step may give an offset to a value that has
\* none; an offset, once there, is not replaced.
C21_OnlyAbsentOffsetAssigned ==
    [][self.kind = "AbstractDateTime" => SameOrBackfilled(self, self')]_vars

-----------------------------------------------------------------------------
(* xpath2_constructors: the function QName(uri, qname)                     *)

\* the characters that may start a name, [^\d\W], among those of the texts given
IsNameStart(c) == c \in {"a", "b", "x", "y", "_"}

\* the characters that may follow, [\w\-.] and the combining marks, among
\* those of the texts given
IsNameChar(c) == IsNameStart(c) \/ IsDigit(c) \/ c \in {"-", "."}

\* the pattern of a prefix or of a local name
IsNCName(s) ==
    /\ Len(s) > 0
    /\ IsNameStart(s[1])
    /\ \A i \in 2..Len(s) : IsNameChar(s[i])

\* QNAME_PATTERN.match(qname).groupdict(): None when there is no match, the
\* group prefix being None when the optional group did not take part
QNAME_PATTERN_match(qname) ==
    IF IsNCName(qname) THEN Some([prefix |-> None, local |-> qname])
    ELSE IF /\ Len(Split(qname, ":")) = 2
            /\ IsNCName(Split(qname, ":")[1]) /\ IsNCName(Split(qname, ":")[2])
    THEN Some([prefix |-> Some(Split(qname, ":")[1]), local |-> Split(qname, ":")[2]])
    ELSE None

\* what evaluate leaves: the value returned or the error raised, and the
\* table self.parser.namespaces
Evaluated(value, namespaces) == [value |-> value, namespaces |-> namespaces]

\* the table with the key pfx set to uri
Bound(namespaces, pfx, uri) ==
    [p \in DOMAIN namespaces \cup {pfx} |-> IF p = pfx THEN uri ELSE namespaces[p]]

\* the branch of evaluate for a namespace that is not empty, which sets the
\* prefix whatever it is bound to
QName_bind_anew(namespaces, uri, qname, pfx) ==
    Evaluated(qname, Bound(namespaces, pfx, uri.value))

\* the branch of evaluate for a namespace that is not empty
QName_bind(namespaces, uri, qname, pfx) ==
    IF pfx \in DOMAIN namespaces
    THEN (IF uri.value # namespaces[pfx] THEN Evaluated(Raise("FOCA0002"), namespaces)
          ELSE Evaluated(qname, namespaces))
    ELSE Evaluated(qname, Bound(namespaces, pfx, uri.value))

\* evaluate of the token QName labelled function, on the arguments evaluated:
\* uri is None, a str or another value, qname a str or another value
QName_evaluate(namespaces, uri, qname) ==
    IF uri.kind \notin {"None", "str"} THEN Evaluated(Raise("FORG0006"), namespaces)
    ELSE IF qname.kind # "str" THEN Evaluated(Raise("FORG0006"), namespaces)
    ELSE IF IsNone(QNAME_PATTERN_match(qname.value))
    THEN Evaluated(Raise("FOCA0002"), namespaces)
    ELSE IF uri.kind = "None" \/ uri.value = <<>>
    THEN (IF ~IsNone(Get(QNAME_PATTERN_match(qname.value)).prefix)
          THEN Evaluated(Raise("FOCA0002"), namespaces)
          ELSE Evaluated(qname, namespaces))
    ELSE QName_bind(namespaces, uri, qname,
                    IF IsNone(Get(QNAME_PATTERN_match(qname.value)).prefix) THEN <<>>
                    ELSE Get(Get(QNAME_PATTERN_match(qname.value)).prefix))

-----------------------------------------------------------------------------
(* Evaluating QName(uri, qname) again and again on one parser              *)

\* the namespace names given: none, the empty one, two names, no text
UriArguments == {Nothing, Str(<<>>), Str(<<"u">>), Str(<<"v">>), Integer(1)}

\* the qualified names given: with the prefixes a and b, without prefix, not
\* matching the pattern, no text
QNameArguments ==
    {Str(<<"a", ":", "x">>), Str(<<"b", ":", "y">>), Str(<<"a", ":", "y">>), Str(<<"x">>),
     Str(<<"a", ":">>), Str(<<":", "x">>), Str(<<"1", "a", ":", "x">>),
     Str(<<"a", ":", "b", ":", "x">>), Str(<<>>), Integer(1)}

\* the tables a parser starts with: empty, and with the prefix a
StartTables == {<< >>, Bound(<< >>, <<"a">>, <<"u">>)}

InitQName ==
    /\ self = Nothing /\ other = Nothing /\ text = <<>> /\ result = Nothing
    /\ op = "init"

\* a parser with its table of namespaces
NewParser ==
    /\ op = "init"
    /\ \E t \in StartTables : self' = [kind |-> "parser", namespaces |-> t]
    /\ op' = "parser"
    /\ UNCHANGED <<other, text, result>>

\* QName(uri, qname) evaluated by the parser
EvaluateQName ==
    /\ op # "init"
    /\ \E uri \in UriArguments, qname \in QNameArguments :
          /\ other' = [kind |-> "call", uri |-> uri, qname |-> qname]
          /\ result' = QName_evaluate(self.namespaces, uri, qname).value
          /\ self' = [self EXCEPT
                         !.namespaces = QName_evaluate(self.namespaces, uri, qname).namespaces]
    /\ op' = "QName"
    /\ UNCHANGED text

NextQName == NewParser \/ EvaluateQName

SpecQName == InitQName /\ [][NextQName]_vars

\* the prefix of a qualified name that matches the pattern, '' when it has none
PrefixOf(qname) ==
    IF Len(Split(qname.value, ":")) = 2 THEN Split(qname.value, ":")[1] ELSE <<>>

\* the namespace given is a text that is not empty
HasUri(call) == call.uri.kind = "str" /\ call.uri.value # <<>>

\* the two arguments are a namespace that is not empty and a qualified name
IsBinding(call) ==
    /\ HasUri(call)
    /\ call.qname.kind = "str" /\ ~IsNone(QNAME_PATTERN_match(call.qname.value))

\* C22: over any sequence of QName(uri, qname) evaluations on one table, a
\* call whose prefix is not in the table and whose URI is not empty adds the
\* binding prefix -> URI and nothing else, a call whose prefix is bound to
\* another URI fails and leaves the table as it is, a call without URI leaves
\* the table as it is, and no call changes or removes a binding of the table.
C22_BindingsOnlyAdded ==
    [][self.kind = "parser" =>
          /\ \A p \in DOMAIN self.namespaces :
                p \in DOMAIN self'.namespaces /\ self'.namespaces[p] = self.namespaces[p]
          /\ ~HasUri(other') => self'.namespaces = self.namespaces
          /\ (IsBinding(other') /\ PrefixOf(other'.qname) \notin DOMAIN self.namespaces) =>
                /\ result' = other'.qname
                /\ self'.namespaces =
                       Bound(self.namespaces, PrefixOf(other'.qname), other'.uri.value)
          /\ (/\ IsBinding(other')
              /\ PrefixOf(other'.qname) \in DOMAIN self.namespaces
              /\ self.namespaces[PrefixOf(other'.qname)] # other'.uri.value) =>
                /\ IsError(result')
                /\ self'.namespaces = self.namespaces]_vars

\* reached: the prefix a is bound to u, and QName("v", "a:x") has failed
C22_RebindingRejected ==
    /\ op = "QName"
    /\ other.uri = Str(<<"v">>) /\ other.qname = Str(<<"a", ":", "x">>)
    /\ IsError(result)
    /\ <<"a">> \in DOMAIN self.namespaces /\ self.namespaces[<<"a">>] = <<"u">>

-----------------------------------------------------------------------------
(* The type proxies NumericTypeProxy and ArithmeticTypeProxy               *)

\* the classes that the proxies meet: those of Python, of its library and of
\* the module
NumberClasses == {"bool", "int", "float", "Double", "Decimal"}

DurationClassNames == {"Duration", "YearMonthDuration", "DayTimeDuration"}

DateTimeClassNames ==
    {"AbstractDateTime", "OrderedDateTime", "DateTime10", "DateTime", "Date10", "Date",
     "XPathGregorianDay", "GregorianDay", "XPathGregorianMonth", "GregorianMonth",
     "XPathGregorianMonthDay", "GregorianMonthDay", "XPathGregorianYear",
     "GregorianYear10", "GregorianYear", "XPathGregorianYearMonth",
     "GregorianYearMonth10", "GregorianYearMonth", "Time"}

OtherClasses ==
    {"UntypedAtomic", "str", "bytes", "NoneType", "Timezone", "timedelta", "QName",
     "AnyURI", "AbstractBinary", "HexBinary", "Base64Binary", "object"}

\* the base classes of a class: bool is an int, Double a float
ClassBases(cls) ==
    IF cls \in DateTimeClassNames THEN Bases(cls)
    ELSE IF cls \in DurationClassNames THEN DurationBases(cls)
    ELSE IF cls = "bool" THEN {"int"}
    ELSE IF cls = "Double" THEN {"float"}
    ELSE IF cls \in {"HexBinary", "Base64Binary"} THEN {"AbstractBinary"}
    ELSE {}

RECURSIVE py_issubclass(_, _)
\* issubclass(cls, base)
py_issubclass(cls, base) ==
    cls = base \/ \E b \in ClassBases(cls) : py_issubclass(b, base)

\* type(value)
type(value) ==
    CASE value.kind \in {"bool", "int", "float", "str", "UntypedAtomic", "Timezone"} ->
             value.kind
      [] value.kind = "number" -> value.type
      [] value.kind \in {"AbstractDateTime", "Duration"} -> value.cls
      [] value.kind = "None" -> "NoneType"

\* isinstance(value, classes) for a tuple of classes
py_isinstance(value, classes) == \E c \in classes : py_issubclass(type(value), c)

\* NumericTypeProxy.instance_check without the exclusion of bool
NumericTypeProxy_instance_check_bool(other_) ==
    py_isinstance(other_, {"int", "float", "Decimal"})

\* NumericTypeProxy.instance_check
NumericTypeProxy_instance_check(other_) ==
    py_isinstance(other_, {"int", "float", "Decimal"}) /\ ~py_isinstance(other_, {"bool"})

\* NumericTypeProxy.subclass_check
NumericTypeProxy_subclass_check(cls) ==
    IF py_issubclass(cls, "bool") THEN FALSE
    ELSE py_issubclass(cls, "int") \/ py_issubclass(cls, "float")
         \/ py_issubclass(cls, "Decimal")

\* ArithmeticTypeProxy.instance_check
ArithmeticTypeProxy_instance_check(other_) ==
    /\ py_isinstance(other_, {"int", "float", "Decimal", "AbstractDateTime", "Duration",
                              "UntypedAtomic"})
    /\ ~py_isinstance(other_, {"bool"})

\* ArithmeticTypeProxy.subclass_check
ArithmeticTypeProxy_subclass_check(cls) ==
    IF py_issubclass(cls, "bool") THEN FALSE
    ELSE py_issubclass(cls, "int") \/ py_issubclass(cls, "float")
         \/ py_issubclass(cls, "Decimal") \/ py_issubclass(cls, "Duration")
         \/ py_issubclass(cls, "AbstractDateTime") \/ py_issubclass(cls, "UntypedAtomic")

\* isinstance(value, proxy): TypeProxyMeta.__instancecheck__
instance_check(proxy, value) ==
    IF proxy = "NumericTypeProxy" THEN NumericTypeProxy_instance_check(value)
    ELSE ArithmeticTypeProxy_instance_check(value)

\* issubclass(cls, proxy): TypeProxyMeta.__subclasscheck__
subclass_check(proxy, cls) ==
    IF proxy = "NumericTypeProxy" THEN NumericTypeProxy_subclass_check(cls)
    ELSE ArithmeticTypeProxy_subclass_check(cls)

-----------------------------------------------------------------------------
(* Testing values and types against the proxies                            *)

TypeProxies == {"NumericTypeProxy", "ArithmeticTypeProxy"}

\* the values tested: booleans, numbers of the three kinds, a value of every
\* temporal class and of every duration class, untyped values, and values of
\* other types
ProxyValues ==
    {Bool(TRUE), Bool(FALSE), Integer(0), Integer(1), Integer(-3), Float(5, 2),
     Float(0, 1), [kind |-> "number", type |-> "Decimal", halves |-> 3],
     UntypedAtomic(Str(<<"5">>)), UntypedAtomic(Str(<<"t", "r", "u", "e">>)),
     Str(<<"5">>), Str(<<>>), Nothing, Timezone(0)}
    \cup {New(cls, DefaultKwargs) : cls \in TemporalClasses}
    \cup {Duration(cls, 0, dec_zero) : cls \in DurationClassNames}

\* the classes tested
ProxyClasses ==
    NumberClasses \cup DurationClassNames \cup DateTimeClassNames \cup OtherClasses

InitProxy ==
    /\ self = Nothing /\ other = Nothing /\ text = <<>> /\ result = Nothing
    /\ op = "init"

\* isinstance(value, proxy)
InstanceCheck ==
    /\ op = "init"
    /\ \E proxy \in TypeProxies, value \in ProxyValues :
          /\ self' = value
          /\ text' = <<proxy>>
          /\ result' = Bool(instance_check(proxy, value))
    /\ other' = Nothing
    /\ op' = "isinstance"

\* issubclass(cls, proxy)
SubclassCheck ==
    /\ op = "init"
    /\ \E proxy \in TypeProxies, cls \in ProxyClasses :
          /\ other' = [kind |-> "type", cls |-> cls]
          /\ text' = <<proxy>>
          /\ result' = Bool(subclass_check(proxy, cls))
    /\ self' = Nothing
    /\ op' = "issubclass"

NextProxy == InstanceCheck \/ SubclassCheck

SpecProxy == InitProxy /\ [][NextProxy]_vars

\* cls is a class of integers, floats or exact decimals and is not bool
IsNumericClass(cls) ==
    /\ cls # "bool"
    /\ \E c \in {"int", "float", "Decimal"} : py_issubclass(cls, c)

\* cls is a temporal class, a duration class or UntypedAtomic
IsOtherArithmeticClass(cls) ==
    \E c \in {"AbstractDateTime", "Duration", "UntypedAtomic"} : py_issubclass(cls, c)

\* the members of a union among the classes
IsMemberClass(proxy, cls) ==
    IF proxy = "NumericTypeProxy" THEN IsNumericClass(cls)
    ELSE IsNumericClass(cls) \/ IsOtherArithmeticClass(cls)

\* C23: for both proxies the test of a value agrees with the test of its
\* type, a boolean and bool are members of neither, the numeric union is the
\* integers, floats and exact decimals, every member of it is a member of the
\* arithmetic union, and the arithmetic union holds besides exactly the
\* temporal values, the durations and the untyped values.
C23_UnionsAgreeOnValuesAndTypes ==
    /\ op = "isinstance" =>
          /\ result = Bool(subclass_check(text[1], type(self)))
          /\ result = Bool(IsMemberClass(text[1], type(self)))
          /\ self.kind = "bool" => result = Bool(FALSE)
          /\ instance_check("NumericTypeProxy", self) =>
                 instance_check("ArithmeticTypeProxy", self)
    /\ op = "issubclass" =>
          /\ result = Bool(IsMemberClass(text[1], other.cls))
          /\ other.cls = "bool" => result = Bool(FALSE)
          /\ subclass_check("NumericTypeProxy", other.cls) =>
                 subclass_check("ArithmeticTypeProxy", other.cls)

\* reached: True is no member of the arithmetic union, though bool is an int
C23_TrueIsNoMember ==
    /\ op = "isinstance"
    /\ self = Bool(TRUE)
    /\ text = <<"ArithmeticTypeProxy">>
    /\ result = Bool(FALSE)

-----------------------------------------------------------------------------
(* class AbstractBinary, Base64Binary and HexBinary                        *)

\* Texts and bytes are both sequences of characters: the values kept are
\* ASCII. Decoded bytes are sequences of numbers 0..255.

HexChars ==
    <<"0", "1", "2", "3", "4", "5", "6", "7", "8", "9", "a", "b", "c", "d", "e", "f">>

\* the value of a hexadecimal digit of either case
HexVal(c) == CHOOSE i \in 0..15 : HexChars[i + 1] = Lower(<<c>>)[1]

\* HEX_BINARY_PATTERN: ^[0-9a-fA-F]+$
IsHexText(s) ==
    /\ Len(s) > 0
    /\ \A i \in 1..Len(s) : \E k \in 1..16 : HexChars[k] = Lower(<<s[i]>>)[1]

hex_binary_validator(value) ==
    \/ Strip(value) = <<>>
    \/ Len(Strip(value)) % 2 = 0 /\ IsHexText(Strip(value))

\* codecs.decode(value, 'hex'): binascii.unhexlify
unhexlify(s) ==
    IF Len(s) % 2 # 0 \/ (s # <<>> /\ ~IsHexText(s)) THEN Raise("binascii.Error")
    ELSE [kind  |-> "bytes",
          value |-> [i \in 1..(Len(s) \div 2) |-> 16 * HexVal(s[2 * i - 1]) + HexVal(s[2 * i])]]

\* codecs.encode(value, 'hex'): binascii.hexlify
hexlify(bytes) ==
    [i \in 1..(2 * Len(bytes)) |->
        IF i % 2 = 1 THEN HexChars[(bytes[(i + 1) \div 2] \div 16) + 1]
        ELSE HexChars[(bytes[i \div 2] % 16) + 1]]

\* the alphabet of base64
B64Chars ==
    <<"A", "B", "C", "D", "E", "F", "G", "H", "I", "J", "K", "L", "M", "N", "O", "P",
      "Q", "R", "S", "T", "U", "V", "W", "X", "Y", "Z", "a", "b", "c", "d", "e", "f",
      "g", "h", "i", "j", "k", "l", "m", "n", "o", "p", "q", "r", "s", "t", "u", "v",
      "w", "x", "y", "z", "0", "1", "2", "3", "4", "5", "6", "7", "8", "9", "+", "/">>

IsB64Char(c) == \E k \in 1..64 : B64Chars[k] = c

B64Val(c) == CHOOSE i \in 0..63 : B64Chars[i + 1] = c

\* value.replace(' ', '')
WithoutSpaces(s) == SelectSeq(s, LAMBDA c : c # " ")

\* the last group of BASE64_BINARY_PATTERN on four characters: four of the
\* alphabet, or two, one of AEIMQUYcgkosw048 and =, or one, one of AQgw and ==
IsB64Final(q) ==
    \/ \A i \in 1..4 : IsB64Char(q[i])
    \/ /\ IsB64Char(q[1]) /\ IsB64Char(q[2]) /\ q[4] = "="
       /\ q[3] \in {"A", "E", "I", "M", "Q", "U", "Y", "c", "g", "k", "o", "s", "w",
                    "0", "4", "8"}
    \/ /\ IsB64Char(q[1]) /\ q[2] \in {"A", "Q", "g", "w"} /\ q[3] = "=" /\ q[4] = "="

\* BASE64_BINARY_PATTERN matches the whole of a text without spaces
IsB64Text(s) ==
    /\ Len(s) % 4 = 0
    /\ \A i \in 1..(Len(s) - 4) : IsB64Char(s[i])
    /\ Len(s) > 0 => IsB64Final(SubSeq(s, Len(s) - 3, Len(s)))

\* base64.standard_b64decode accepts every text that the pattern matches
base64_binary_validator(value) ==
    \/ WithoutSpaces(value) = <<>>
    \/ IsB64Text(WithoutSpaces(value))

\* the 24 bits of four characters of base64, = counting as zero
B64Bits(q) ==
    B64Val(q[1]) * 262144 + B64Val(q[2]) * 4096
    + (IF q[3] = "=" THEN 0 ELSE B64Val(q[3]) * 64)
    + (IF q[4] = "=" THEN 0 ELSE B64Val(q[4]))

\* the bytes of four characters of base64
B64Bytes(q) ==
    IF q[3] = "=" THEN <<B64Bits(q) \div 65536>>
    ELSE IF q[4] = "=" THEN <<B64Bits(q) \div 65536, (B64Bits(q) \div 256) % 256>>
    ELSE <<B64Bits(q) \div 65536, (B64Bits(q) \div 256) % 256, B64Bits(q) % 256>>

RECURSIVE B64DecodeQuads(_)
B64DecodeQuads(s) ==
    IF s = <<>> THEN <<>>
    ELSE B64Bytes(SubSeq(s, 1, 4)) \o B64DecodeQuads(Tail_(s, 4))

\* codecs.decode(value, 'base64'): binascii.a2b_base64 skips the characters
\* that are not of the alphabet, as the spaces of a validated value
a2b_base64(s) ==
    IF ~IsB64Text(WithoutSpaces(s)) THEN Raise("binascii.Error")
    ELSE [kind |-> "bytes", value |-> B64DecodeQuads(WithoutSpaces(s))]

\* the four characters of base64 for one, two or three bytes
B64Quad(b) ==
    IF Len(b) = 1
    THEN <<B64Chars[(b[1] \div 4) + 1], B64Chars[(b[1] % 4) * 16 + 1], "=", "=">>
    ELSE IF Len(b) = 2
    THEN <<B64Chars[(b[1] \div 4) + 1], B64Chars[(b[1] % 4) * 16 + (b[2] \div 16) + 1],
           B64Chars[(b[2] % 16) * 4 + 1], "=">>
    ELSE <<B64Chars[(b[1] \div 4) + 1], B64Chars[(b[1] % 4) * 16 + (b[2] \div 16) + 1],
           B64Chars[(b[2] % 16) * 4 + (b[3] \div 64) + 1], B64Chars[(b[3] % 64) + 1]>>

RECURSIVE b2a_base64(_)
\* codecs.encode(value, 'base64').rstrip(b'\n') for less than 58 bytes, which
\* make one line
b2a_base64(bytes) ==
    IF bytes = <<>> THEN <<>>
    ELSE IF Len(bytes) <= 3 THEN B64Quad(bytes)
    ELSE B64Quad(SubSeq(bytes, 1, 3)) \o b2a_base64(Tail_(bytes, 3))

\* the static method validator of each class
Binary_validator(cls, value) ==
    IF cls = "HexBinary" THEN hex_binary_validator(value)
    ELSE base64_binary_validator(value)

\* AbstractBinary.__init__ for a str
AbstractBinary(cls, value) ==
    IF ~Binary_validator(cls, value) THEN Raise("ValueError")
    ELSE [kind |-> "AbstractBinary", cls |-> cls, value |-> value]

\* the static method encoder of each class
Binary_encoder(cls, bytes) ==
    IF cls = "HexBinary" THEN hexlify(bytes) ELSE b2a_base64(bytes)

\* the method decode of each class
Binary_decode(b) ==
    IF b.cls = "HexBinary" THEN unhexlify(b.value) ELSE a2b_base64(b.value)

\* b == value for bytes: AbstractBinary.__eq__ and HexBinary.__eq__
Binary_eq(b, value) ==
    IF b.cls = "HexBinary" THEN Bool(Lower(b.value) = Lower(value))
    ELSE Bool(b.value = value)

-----------------------------------------------------------------------------
(* Decoding binary values and encoding them again                          *)

MaxHexLen == 3

\* the hexadecimal texts given: every text of some digits of both cases, a
\* letter that is no digit and the space
HexTexts ==
    UNION {[1..n -> {"4", "a", "B", "g", " "}] : n \in 0..MaxHexLen}

\* the text s with a space before its character k, s itself when it has no
\* such place
Spaced(s, k) ==
    IF k = 0 \/ k > Len(s) + 1 THEN s
    ELSE SubSeq(s, 1, k - 1) \o <<" ">> \o SubSeq(s, k, Len(s))

\* the groups of base64 given: whole, padded, with a last character that does
\* not end on a byte, too short
B64Groups ==
    {<<"Y", "W", "J", "j">>, <<"Y", "W", "I", "=">>, <<"Y", "Q", "=", "=">>,
     <<"/", "+", "8", "=">>, <<"Y", "R", "=", "=">>, <<"Y", "Q", "=">>, <<"Y">>}

\* the base64 texts given: no text, one group or two, with and without a space
Base64Texts ==
    {<<>>, <<" ">>}
    \cup {Spaced(head \o g, k) :
            head \in {<<>>, <<"A", "A", "A", "A">>, <<"Y", "Q", "=", "=">>},
            g \in B64Groups, k \in 0..5}

InitBinary ==
    /\ self = Nothing /\ other = Nothing /\ text = <<>> /\ result = Nothing
    /\ op = "init"

\* v = HexBinary(text)
NewHexBinary ==
    /\ op = "init"
    /\ \E t \in HexTexts :
          /\ text' = t
          /\ self' = AbstractBinary("HexBinary", t)
    /\ op' = "new"
    /\ UNCHANGED <<other, result>>

\* v = Base64Binary(text)
NewBase64Binary ==
    /\ op = "init"
    /\ \E t \in Base64Texts :
          /\ text' = t
          /\ self' = AbstractBinary("Base64Binary", t)
    /\ op' = "new"
    /\ UNCHANGED <<other, result>>

\* v.decode()
Decode ==
    /\ op = "new"
    /\ self.kind = "AbstractBinary"
    /\ result' = Binary_decode(self)
    /\ op' = "decode"
    /\ UNCHANGED <<self, other, text>>

\* v.encoder(v.decode())
Encode ==
    /\ op = "decode"
    /\ result.kind = "bytes"
    /\ other' = Binary_encoder(self.cls, result.value)
    /\ op' = "encode"
    /\ UNCHANGED <<self, text, result>>

NextBinary == NewHexBinary \/ NewBase64Binary \/ Decode \/ Encode

SpecBinary == InitBinary /\ [][NextBinary]_vars

\* C24: for every binary value v that was constructed, from hexadecimal
\* digits of either case or within spaces and from base64 with spaces in it,
\* v.decode() succeeds, and the bytes it gives, encoded again by the encoder of
\* the class of v, are equal to v: whatever the case for HexBinary, exactly for
\* Base64Binary.
C24_DecodeThenEncodeIsValue ==
    /\ op = "decode" => result.kind = "bytes"
    /\ op = "encode" => Binary_eq(self, other) = Bool(TRUE)

-----------------------------------------------------------------------------
(* class AnyURI, any_uri_validator and the constructor anyURI              *)

\* one character of the class [a-fA-f\d] of WRONG_ESCAPE_PATTERN: a digit, a
\* letter a to f, or a character of the range from A to f, which holds the
\* upper-case letters, the characters between Z and a, and a to f (of the
\* characters between Z and a the grave accent, which no text given holds, is
\* not listed)
InEscapeClass(c) ==
    \/ IsDigit(c)
    \/ c \in {"a", "b", "c", "d", "e", "f"}
    \/ c \in {"A", "B", "C", "D", "E", "F", "G", "H", "I", "J", "K", "L", "M",
              "N", "O", "P", "Q", "R", "S", "T", "U", "V", "W", "X", "Y", "Z"}
    \/ c \in {"[", "\\", "]", "^", "_"}

\* one character of the class [a-fA-F\d]
InHexClass(c) ==
    \/ IsDigit(c)
    \/ c \in {"a", "b", "c", "d", "e", "f"}
    \/ c \in {"A", "B", "C", "D", "E", "F"}

\* WRONG_ESCAPE_PATTERN.search(value) is not None, the pattern being
\* %(?![a-fA-f\d]{2}): some % is not followed by two characters of the class
WRONG_ESCAPE_PATTERN_search(value) ==
    \E i \in 1..Len(value) :
       /\ value[i] = "%"
       /\ ~(/\ i + 2 <= Len(value)
            /\ InEscapeClass(value[i + 1]) /\ InEscapeClass(value[i + 2]))

\* value.count(c)
Count(value, c) == Cardinality({i \in 1..Len(value) : value[i] = c})

\* the characters of s before the first one of the set given
RECURSIVE Before(_, _)
Before(s, delimiters) ==
    IF s = <<>> \/ s[1] \in delimiters THEN <<>>
    ELSE <<s[1]>> \o Before(Tail(s), delimiters)

\* the netloc that urlparse finds in a text without scheme: what follows a
\* leading '//' up to the next '/', '?' or '#'
Netloc(value) ==
    IF Len(value) >= 2 /\ value[1] = "/" /\ value[2] = "/"
    THEN Before(SubSeq(value, 3, Len(value)), {"/", "?", "#"})
    ELSE <<>>

\* urlparse(value) raises ValueError: the netloc holds a bracket '[' or ']'
\* that does not enclose an IP address, which no text given holds
urlparse_raises(value) ==
    \E i \in 1..Len(Netloc(value)) : Netloc(value)[i] \in {"[", "]"}

\* any_uri_validator(value) for a str or another value that is not bytes
any_uri_validator(value) ==
    IF value.kind # "str" THEN FALSE
    ELSE IF urlparse_raises(value.value) THEN FALSE
    ELSE Count(value.value, "#") <= 1 /\ ~WRONG_ESCAPE_PATTERN_search(value.value)

\* AnyURI.__init__ for a str, an UntypedAtomic or another value that is not
\* bytes: the value built or the error raised
AnyURI(value) ==
    IF value.kind \notin {"str", "UntypedAtomic"} THEN Raise("TypeError")
    ELSE IF ~any_uri_validator(Str(value.value)) THEN Raise("ValueError")
    ELSE [kind |-> "AnyURI", value |-> value.value]

RECURSIVE Squeezed(_)
\* WHITESPACES_PATTERN.sub(' ', s) for a text whose only white space is the
\* space: every run of spaces becomes one space
Squeezed(s) ==
    IF Len(s) < 2 THEN s
    ELSE IF s[1] = " " /\ s[2] = " " THEN Squeezed(Tail(s))
    ELSE <<s[1]>> \o Squeezed(Tail(s))

\* collapse_white_spaces(s)
collapse_white_spaces(s) == Strip(Squeezed(s))

\* the constructor anyURI applied to a text: the text returned or the error
\* raised
anyURI_cast(value) ==
    IF urlparse_raises(collapse_white_spaces(value)) THEN Raise("FOCA0002")
    ELSE IF Count(collapse_white_spaces(value), "#") > 1 THEN Raise("FOCA0002")
    ELSE IF WRONG_ESCAPE_PATTERN_search(collapse_white_spaces(value))
    THEN Raise("FOCA0002")
    ELSE Str(collapse_white_spaces(value))

-----------------------------------------------------------------------------
(* Validating and constructing URIs with '#' and '%'                       *)

MaxUriLen == 3

\* the characters of the texts given: the two that the tests look for, hex
\* digits, letters that are no hex digits, and the space
UriAlphabet == {"%", "#", "4", "a", "G", "z", " "}

UriTexts == UNION {[1..n -> UriAlphabet] : n \in 0..MaxUriLen}

InitUri ==
    /\ self = Nothing /\ other = Nothing /\ text = <<>> /\ result = Nothing
    /\ op = "init"

\* AnyURI(value) for a str, an untyped atomic value or an int
NewAnyURI ==
    /\ op = "init"
    /\ \E t \in UriTexts : \E v \in {Str(t), UntypedAtomic(Str(t)), Integer(1)} :
          /\ text' = (IF v.kind = "int" THEN <<>> ELSE t)
          /\ other' = v
          /\ result' = AnyURI(v)
          /\ self' = (IF IsError(AnyURI(v)) THEN Nothing ELSE AnyURI(v))
    /\ op' = "AnyURI"

\* XSD_BUILTIN_TYPES['anyURI'].validator(value) for a str or an int
ValidateAnyURI ==
    /\ op = "init"
    /\ \E t \in UriTexts : \E v \in {Str(t), Integer(1)} :
          /\ text' = (IF v.kind = "int" THEN <<>> ELSE t)
          /\ other' = v
          /\ result' = Bool(any_uri_validator(v))
    /\ op' = "validator"
    /\ UNCHANGED self

\* the constructor anyURI applied to a text
CastAnyURI ==
    /\ op = "init"
    /\ \E t \in UriTexts :
          /\ text' = t
          /\ other' = Str(t)
          /\ result' = anyURI_cast(t)
    /\ op' = "anyURI"
    /\ UNCHANGED self

NextUri == NewAnyURI \/ ValidateAnyURI \/ CastAnyURI

SpecUri == InitUri /\ [][NextUri]_vars

\* some % of the text is not followed by two hexadecimal digits
HasWrongEscape(s) ==
    \E i \in 1..Len(s) :
       s[i] = "%" /\ ~(i + 2 <= Len(s) /\ InHexClass(s[i + 1]) /\ InHexClass(s[i + 2]))

\* the text that was validated or constructed must be rejected
MustBeRejected == other.kind # "int" /\ (Count(text, "#") > 1 \/ HasWrongEscape(text))

\* C25: AnyURI, the anyURI validator and the constructor anyURI reject every
\* text with more than one '#' and every text in which some '%' is not
\* followed by two hexadecimal digits (0-9, a-f, A-F).
C25_WrongEscapesRejected ==
    MustBeRejected =>
        /\ op = "AnyURI" => IsError(result)
        /\ op = "validator" => result = Bool(FALSE)
        /\ op = "anyURI" => IsError(result)

-----------------------------------------------------------------------------
(* todelta and fromdelta, there and back                                   *)

DeltaClasses == {"DateTime10", "DateTime"}

\* the years of the values given: before the common era, around its start,
\* inside the range of datetime, and past its end
DeltaYears == {-401, -400, -5, -4, -2, -1, 1, 4, 2000, 9999, 10000, 10004}

\* the month and day, and the time of day
DeltaDays == {<<1, 1>>, <<2, 28>>, <<2, 29>>, <<3, 1>>, <<12, 31>>}

DeltaTimes == {<<0, 0, 0, 0>>, <<12, 0, 0, 0>>, <<23, 59, 59, 999999>>}

\* the values without offset that the constructor accepts
DeltaValues ==
    {v \in {New(cls, [year |-> y, month |-> md[1], day |-> md[2], hour |-> t[1],
                      minute |-> t[2], second |-> t[3], microsecond |-> t[4],
                      tzinfo |-> None]) :
               cls \in DeltaClasses, y \in DeltaYears, md \in DeltaDays, t \in DeltaTimes} :
        ~IsError(v)}

\* the timedeltas given: the days of the years above, and the time of day
Deltas ==
    {timedelta(d, s[1], s[2]) :
        d \in {-146463, -146097, -1827, -1461, -731, -366, -365, -1, 0, 1, 365, 730119,
               3652058, 3652059, 3652060, 3652425},
        s \in {<<0, 0>>, <<1, 0>>, <<86399, 999999>>}}

InitDelta ==
    /\ self = Nothing /\ other = Nothing /\ text = <<>> /\ result = Nothing
    /\ op = "init"

\* a value without offset
NewValue ==
    /\ op = "init"
    /\ self' \in DeltaValues
    /\ op' = "value"
    /\ UNCHANGED <<other, text, result>>

\* a timedelta counted from 0001-01-01T00:00:00
NewDelta ==
    /\ op = "init"
    /\ other' \in Deltas
    /\ op' = "delta"
    /\ UNCHANGED <<self, text, result>>

\* self.todelta(), of the value given or of the one that fromdelta has built
ToDelta ==
    /\ op \in {"value", "fromdelta"} /\ self.kind = "AbstractDateTime"
    /\ result' = todelta(self)
    /\ op' = (IF op = "value" THEN "todelta" ELSE "delta there and back")
    /\ UNCHANGED <<self, other, text>>

\* cls.fromdelta(delta), of the timedelta given on a class chosen or of the
\* one that todelta has returned on the class of the value
FromDelta ==
    \/ /\ op = "delta"
       /\ \E cls \in DeltaClasses : self' = fromdelta(cls, other, FALSE)
       /\ op' = "fromdelta"
       /\ UNCHANGED <<other, text, result>>
    \/ /\ op = "todelta"
       /\ other' = fromdelta(self.cls, result, FALSE)
       /\ op' = "value there and back"
       /\ UNCHANGED <<self, text, result>>

NextDelta == NewValue \/ NewDelta \/ ToDelta \/ FromDelta

SpecDelta == InitDelta /\ [][NextDelta]_vars

\* C26: for every DateTime value v without offset, of either version, in the
\* years 1 to 9999, beyond 9999 or before the common era,
\* fromdelta(v.todelta()) == v; and for every timedelta t that fromdelta
\* accepts, fromdelta(t).todelta() == t.
C26_DeltaThereAndBack ==
    /\ op = "value there and back" =>
          ~IsError(other) /\ __eq__(other, self) = Bool(TRUE)
    /\ op = "delta there and back" => result = other

-----------------------------------------------------------------------------
(* The days that days_from_common_era counts                               *)

MaxEraYear == 450

\* the days of the years a to b of the proleptic Gregorian calendar, the year
\* 0 being 1 BCE, -1 being 2 BCE and so on: 365 for each year and one more
\* for each leap year
DaysOfYears(a, b) ==
    IF a > b THEN 0
    ELSE 365 * (b - a + 1) + Cardinality({y \in a..b : isleap(y)})

InitEra ==
    /\ self = Nothing /\ other = Nothing /\ text = <<>> /\ result = Nothing
    /\ op = "init"

\* days_from_common_era(year)
DaysFromCommonEra ==
    /\ op = "init"
    /\ \E year \in (-MaxEraYear)..MaxEraYear :
          /\ self' = Integer(year)
          /\ result' = Integer(days_from_common_era(year))
    /\ op' = "days_from_common_era"
    /\ UNCHANGED <<other, text>>

\* the first day of a year as todelta counts it: the day offset of
\* DateTime10(year, 1, 1), whose year -1 is 1 BCE
FirstDayToDelta ==
    /\ op = "init"
    /\ \E year \in ((-MaxEraYear)..MaxEraYear) \ {0} :
          /\ self' = New("DateTime10", [DefaultKwargs EXCEPT !.year = year])
          /\ result' = todelta(New("DateTime10", [DefaultKwargs EXCEPT !.year = year]))
    /\ op' = "todelta"
    /\ UNCHANGED <<other, text>>

NextEra == DaysFromCommonEra \/ FirstDayToDelta

SpecEra == InitEra /\ [][NextEra]_vars

\* the signed number of days from 0001-01-01 to the first day of the year,
\* the year 0 being 1 BCE
DaysToFirstDay(year) ==
    IF year > 0 THEN DaysOfYears(1, year - 1) ELSE -DaysOfYears(year, 0)

\* C27 as stated: days_from_common_era(year) is the signed number of days
\* from 0001-01-01 to the first day of the year, for every year > 0 and for
\* every year <= 0 with 0 = 1 BCE, -1 = 2 BCE (0 for year 1, -366 for year 0).
C27_DaysToFirstDayOfYear ==
    op = "days_from_common_era" => result.value = DaysToFirstDay(self.value)

\* C27: days_from_common_era(year) is, for a year > 0, the number of days from
\* 0001-01-01 to the end of that year, which is the first day of the year
\* after it (365 for year 1); for a year < 0, with -1 = 1 BCE, -2 = 2 BCE, the
\* number of days from 0001-01-01 back to the first day of that year (-366
\* for year -1); and 0 for year 0.  todelta calls it with year - 1 for a year
\* > 0, so that the first day of every year has the day offset of the
\* calendar.
C27_DaysToYearEndOrBceStart ==
    /\ op = "days_from_common_era" =>
          result.value = (IF self.value > 0 THEN DaysOfYears(1, self.value)
                          ELSE -DaysOfYears(self.value + 1, 0))
    /\ op = "todelta" =>
          result = timedelta(DaysToFirstDay(IF year_(self) > 0 THEN year_(self)
                                            ELSE year_(self) + 1), 0, 0)

\* reached: 5 BCE, a leap year, starts 1827 days before 0001-01-01
C27_FiveBceStarts1827DaysBack ==
    op = "days_from_common_era" /\ self = Integer(-5) /\ result = Integer(-1827)

-----------------------------------------------------------------------------
(* The days that months2days counts                                        *)

MaxMonthsDelta == 25

\* the years given, 0 being 1 BCE: around the leap years of the centuries
\* and around the start of the common era
MonthsYears == (-401..-399) \cup (-101..-99) \cup (-5..5) \cup (99..101) \cup (399..401)

InitMonthsDays ==
    /\ self = Nothing /\ other = Nothing /\ text = <<>> /\ result = Nothing
    /\ op = "init"

\* months2days(year, month, months_delta)
Months2Days ==
    /\ op = "init"
    /\ \E year \in MonthsYears, month \in 1..12,
          months_delta \in (-MaxMonthsDelta)..MaxMonthsDelta :
          /\ self' = [kind |-> "call", year |-> year, month |-> month,
                      months_delta |-> months_delta]
          /\ result' = Integer(months2days(year, month, months_delta))
    /\ op' = "months2days"
    /\ UNCHANGED <<other, text>>

NextMonthsDays == Months2Days

SpecMonthsDays == InitMonthsDays /\ [][NextMonthsDays]_vars

\* the signed number of days from 0001-01-01 to the first day of the month
\* numbered n = year * 12 + (month - 1), each year with its own February
FirstOfMonth(n) ==
    DaysToFirstDay(n \div 12)
        + SumTo(IF isleap(n \div 12) THEN MONTH_DAYS_LEAP ELSE MONTH_DAYS, 1, (n % 12) + 1)

\* C28: months2days(year, month, delta) is, for every year, every month and
\* every signed delta, the signed number of days between the first day of
\* (year, month) and the first day of the month delta months later, or
\* earlier for a negative delta, in the proleptic Gregorian calendar, every
\* 29 February between the two counted once; it is 0 for delta 0.
C28_DaysBetweenFirstsOfMonths ==
    op = "months2days" =>
        /\ result.value =
              FirstOfMonth(self.year * 12 + (self.month - 1) + self.months_delta)
                  - FirstOfMonth(self.year * 12 + (self.month - 1))
        /\ self.months_delta = 0 => result.value = 0

\* reached: thirteen months back from March of the year 5 to February of the
\* leap year 4 are 365 + 29 days
C28_BackAcrossLeapDay ==
    /\ op = "months2days"
    /\ self.year = 5 /\ self.month = 3 /\ self.months_delta = -13
    /\ result = Integer(-394)

-----------------------------------------------------------------------------
(* Parsing the fractional seconds of a lexical form                        *)

MaxFractionLen == 7

\* the digits after the point: 1 to MaxFractionLen of them
FractionTexts == UNION {[1..n -> {"0", "1", "9"}] : n \in 1..MaxFractionLen}

\* the lexical forms up to the point, of a dateTime and of a time
FractionHeads ==
    {<<"DateTime10", <<"2", "0", "0", "0", "-", "0", "1", "-", "0", "1", "T",
                       "1", "0", ":", "0", "0", ":", "0", "0">>>>,
     <<"Time", <<"1", "0", ":", "0", "0", ":", "0", "0">>>>}

InitFraction ==
    /\ self = Nothing /\ other = Nothing /\ text = <<>> /\ result = Nothing
    /\ op = "init"

\* cls.fromstring(text) for a lexical form with fractional seconds, other
\* being the digits of the fraction
FromStringFraction ==
    /\ op = "init"
    /\ \E head \in FractionHeads, fraction \in FractionTexts :
          /\ text' = head[2] \o <<".">> \o fraction
          /\ other' = Str(fraction)
          /\ result' = fromstring(head[1], head[2] \o <<".">> \o fraction, None)
          /\ self' = (IF IsError(fromstring(head[1], head[2] \o <<".">> \o fraction, None))
                      THEN Nothing
                      ELSE fromstring(head[1], head[2] \o <<".">> \o fraction, None))
    /\ op' = "fromstring"

\* str(self) of the value parsed
FormatFraction ==
    /\ op = "fromstring" /\ self.kind = "AbstractDateTime"
    /\ result' = Str(str(self))
    /\ op' = "str"
    /\ UNCHANGED <<self, other, text>>

NextFraction == FromStringFraction \/ FormatFraction

SpecFraction == InitFraction /\ [][NextFraction]_vars

\* the digits right-padded with zeros to six, or the first six of them
SixDigits(digits) ==
    IF Len(digits) <= 6 THEN DigitsVal(digits) * Pow10(6 - Len(digits))
    ELSE DigitsVal(SubSeq(digits, 1, 6))

\* C29: when a lexical date-time or time carries a fractional-second group of
\* n digits, the microsecond of the value parsed is those digits right-padded
\* with zeros to six digits for n <= 6 and the first six digits for n > 6; the
\* fraction is never discarded.
C29_FractionPaddedOrTruncated ==
    op = "fromstring" =>
        /\ self.kind = "AbstractDateTime"
        /\ self._dt.microsecond = SixDigits(other.value)

-----------------------------------------------------------------------------
(* Ordering two values of one class                                        *)

OrderedClasses == {"DateTime10", "DateTime", "Date10", "Date"}

\* the keyword arguments of the values that are ordered: years before the
\* common era, next to each other inside the range of datetime and past it,
\* the first and the last hour of a year, no offset, offset zero and another
OrderedKwargs ==
    {[DefaultKwargs EXCEPT !.year = y, !.month = d[1], !.day = d[2], !.hour = d[3],
                           !.tzinfo = tz] :
        y \in {-5, 1999, 2000, 10001, 10002}, d \in {<<1, 1, 0>>, <<12, 31, 23>>},
        tz \in {None, Some(Timezone(0)), Some(Timezone(-18000))}}

InitOrder ==
    /\ self = Nothing /\ other = Nothing /\ text = <<>> /\ result = Nothing
    /\ op = "init"

\* two values of one class
OrderOperands ==
    /\ op = "init"
    /\ \E cls \in OrderedClasses, kw1 \in OrderedKwargs, kw2 \in OrderedKwargs :
          /\ self' = New(cls, kw1)
          /\ other' = New(cls, kw2)
    /\ op' = "operands"
    /\ UNCHANGED <<text, result>>

\* self rel other
OrderCompare ==
    /\ op = "operands"
    /\ \E rel \in Relations :
          /\ op' = rel
          /\ result' = compare(rel, self, other)
    /\ self' = after_compare(self, other)[1]
    /\ other' = after_compare(self, other)[2]
    /\ UNCHANGED text

NextOrder == OrderOperands \/ OrderCompare

SpecOrder == InitOrder /\ [][NextOrder]_vars

\* a rel b is true
Holds(rel, a, b) == compare(rel, a, b) = Bool(TRUE)

\* C30: for two values a and b of one ordered class, Date or DateTime, with
\* any mix of offsets and any years, exactly one of a < b, a == b, a > b is
\* true, a <= b is true exactly when a < b or a == b is, and a < b is true
\* exactly when b > a is.
C30_ExactlyOneOfLessEqualGreater ==
    op \in Relations =>
        /\ result \in {Bool(TRUE), Bool(FALSE)}
        /\ result = Bool(Holds(op, self, other))
        /\ Cardinality({rel \in {"<", "==", ">"} : Holds(rel, self, other)}) = 1
        /\ Holds("<=", self, other) <=> (Holds("<", self, other) \/ Holds("==", self, other))
        /\ Holds("<", self, other) <=> Holds(">", other, self)

\* reached: the last hour of 1999 at -05:00 found less than the first hour of
\* 2000 without offset, the years deciding
C30_EarlierYearIsLess ==
    /\ op = "<"
    /\ self = New("DateTime10", [DefaultKwargs EXCEPT !.year = 1999, !.month = 12,
                                    !.day = 31, !.hour = 23,
                                    !.tzinfo = Some(Timezone(-18000))])
    /\ other = New("DateTime10", [DefaultKwargs EXCEPT !.year = 2000])
    /\ result = Bool(TRUE)

====
